---------------------------- MODULE Spec2Model ----------------------------
(***************************************************************************)
(* Model of the persistent commit log of weistn/byos (package queue):      *)
(* the append/pollard record codec, the in-memory FAT, the buffered        *)
(* writer, recovery, sealing and the sealed reader.                        *)
(*                                                                         *)
(* The log file is a sequence of bytes (0..255).  Every record is encoded  *)
(* and parsed byte by byte, as the code does.  Go slices and the FAT are   *)
(* 0-based; TLA+ sequences are 1-based, so pool index i is fat[i+1].       *)
(*                                                                         *)
(* Scope of the byte model: the file and every record stay far below the   *)
(* 4096 bytes of a bufio buffer, so bufio.Writer.Write never flushes on    *)
(* its own and bufio.Reader reads the whole file with its first fill.      *)
(*                                                                         *)
(* A method that runs step after step is written as a chain of local       *)
(* operators, one per step, each taking the results of the steps before.   *)
(***************************************************************************)
EXTENDS Integers, Sequences, FiniteSets, TLC

\* ------------------------------------------------------------------ bounds
MaxCommits == 2     \* commit calls in one behaviour with crashes and recovery
MaxOpenCommits == 3 \* commit calls in one behaviour of a created log
MaxData == 2        \* longest payload of an append action
MaxBase == 1        \* largest offset field of an action
MaxPos == 2         \* largest pollard position / read offset
MaxLogs == 3        \* commitLog objects made in one behaviour
MaxTear == 12       \* most bytes a crash cuts off the file
MaxDictCommits == 5 \* commit calls in one behaviour of a log with many streams
MaxDirFiles == 3    \* log files in the directory of a Frontend
MaxDirCommits == 2  \* commit calls of the processes that wrote these files

\* ------------------------------------------------------- program constants
actionWithName == 2
flagMask == 252
flagAppend == 4
flagPollard == 8
flagDict == 12
BufioSize == 4096

\* Stream names: non-empty byte strings without a zero byte ("a", "ab").
Names == {<<97>>, <<97, 98>>}

\* ------------------------------------------------------------ byte helpers
Max(a, b) == IF a > b THEN a ELSE b
Min(a, b) == IF a < b THEN a ELSE b

\* TLC's integers have 32 bits.  Every length, offset and position of the
\* model is far below Huge; a decoded or wrapped value of Huge or more is
\* kept as Huge, which is larger than every file of the model.
Huge == 1073741824

\* binary.LittleEndian.PutUintNN: the w low bytes of n, least significant first
RECURSIVE PutLE(_, _)
PutLE(n, w) == IF w = 0 THEN <<>> ELSE <<n % 256>> \o PutLE(n \div 256, w - 1)

\* binary.LittleEndian.UintNN of the w bytes of b that start at 0-based off
RECURSIVE GetLE(_, _, _)
GetLE(b, off, w) ==
    IF w = 0 THEN 0
    ELSE LET hi == GetLE(b, off + 1, w - 1)
         IN  IF hi >= Huge \div 256 THEN Huge ELSE b[off + 1] + 256 * hi

\* the number of values of a uint16
PoolLimit == 65536

\* conversions to uint16 and uint32; a negative difference wraps to a value
\* of Huge or more
U16(n) == n % PoolLimit
U32(n) == IF n < 0 \/ n > Huge THEN Huge ELSE n

\* b[lo:hi] of Go (0-based, hi excluded)
Slice(b, lo, hi) == [i \in 1..(hi - lo) |-> b[lo + i]]

\* flags | actionWithName and flags & flagMask on one byte
OrWithName(flags) == IF (flags \div 2) % 2 = 1 THEN flags ELSE flags + 2
Kind(flags) == flags - (flags % 4)
HasName(flags) == (flags \div 2) % 2 = 1

\* --------------------------------------------------------------- the state
VARIABLES
    c,         \* the commitLog object: streams, w, size, fat, finalized
    file,      \* the bytes of the log file on disk
    ret,       \* the last operation and what it returned
    g,         \* what the caller knows it has committed through this commitLog
    closeSnap, \* the commitLog and the file at the last successful close()
    snaps,     \* file length and commitLog state after each record of the file
    clean,     \* the file is the records counted in snaps, then at most a tail
               \* that no commit has written (a cut record, or garbage)
    ncommit,   \* commit calls so far
    nlogs,     \* commitLog objects made so far
    fe         \* the log directory and the Frontend over it, whose log is c

vars == <<c, file, ret, g, closeSnap, snaps, clean, ncommit, nlogs, fe>>

\* c.w == nil
NoWriter == [nil |-> TRUE, buf |-> <<>>, err |-> "nil", closed |-> FALSE, pos |-> 0]

\* newWriter(f): an empty bufio.Writer on file handle f, whose offset is pos
newWriter(pos) == [nil |-> FALSE, buf |-> <<>>, err |-> "nil", closed |-> FALSE, pos |-> pos]

\* streamLog{number: index, offset: off, keepOffset: off}
newStreamLog(index, off) ==
    [number |-> index, firstFatIndex |-> 0, lastFatIndex |-> 0,
     offset |-> off, keepOffset |-> off, length |-> 0]

\* newCommitLog()
newCommitLog ==
    [streams |-> <<>>, w |-> NoWriter, size |-> 0, fat |-> <<>>, finalized |-> FALSE]

\* the map c.streams as a function on the names it holds
HasStream(cl, name) == name \in DOMAIN cl.streams
PutStream(cl, name, s) ==
    [cl EXCEPT !.streams = [x \in (DOMAIN cl.streams) \cup {name} |->
                                IF x = name THEN s ELSE cl.streams[x]]]

\* ------------------------------------------------------------ file and bufio
\* os.File.WriteAt semantics of a write at the handle's offset: bytes land at
\* pos, a gap between the end of the file and pos reads as zeros.
PWrite(f, pos, bytes) ==
    LET kept == Min(pos, Len(f))
    IN  SubSeq(f, 1, kept) \o [i \in 1..(pos - kept) |-> 0] \o bytes
            \o SubSeq(f, pos + Len(bytes) + 1, Len(f))

\* bufio.Writer.Write: fails with the sticky error, else buffers p
BWrite(w, p) ==
    IF w.err # "nil" THEN [w |-> w, n |-> 0, err |-> w.err]
    ELSE [w |-> [w EXCEPT !.buf = @ \o p], n |-> Len(p), err |-> "nil"]

\* bufio.Writer.Flush on the file; fault = "write" is an I/O error of the disk
Flush(w, f, fault) ==
    IF w.err # "nil" THEN [w |-> w, file |-> f, err |-> w.err]
    ELSE IF Len(w.buf) = 0 THEN [w |-> w, file |-> f, err |-> "nil"]
    ELSE IF w.closed THEN [w |-> [w EXCEPT !.err = "closed"], file |-> f, err |-> "closed"]
    ELSE IF fault = "write" THEN [w |-> [w EXCEPT !.err = "io"], file |-> f, err |-> "io"]
    ELSE [w |-> [w EXCEPT !.buf = <<>>, !.pos = @ + Len(w.buf)],
          file |-> PWrite(f, w.pos, w.buf), err |-> "nil"]

\* os.File.Sync
FSync(w, fault) ==
    IF w.closed THEN "closed" ELSE IF fault = "sync" THEN "io" ELSE "nil"

\* writer.Sync: flush, then fsync
writerSync(w, f, fault) ==
    LET Synced(r) == IF r.err # "nil" THEN r
                     ELSE [w |-> r.w, file |-> r.file, err |-> FSync(r.w, fault)]
    IN  Synced(Flush(w, f, fault))

\* ------------------------------------------------------------- action codec
\* an action.write that takes the offset field of every action for the
\* first offset of its stream
actionWriteRebase(cl, a) ==
    IF HasStream(cl, a.streamName)
    THEN LET r == BWrite(cl.w, <<a.flags>> \o PutLE(cl.streams[a.streamName].number, 2))
             s == cl.streams[a.streamName]
             c1 == PutStream(cl, a.streamName,
                             [s EXCEPT !.offset = a.offset, !.keepOffset = a.offset])
         IN  IF r.err # "nil" THEN [c |-> cl, n |-> 0, err |-> r.err]
             ELSE [c |-> [c1 EXCEPT !.w = r.w], n |-> r.n, err |-> "nil"]
    ELSE LET index == U16(Cardinality(DOMAIN cl.streams))
             c1 == PutStream(cl, a.streamName, newStreamLog(index, a.offset))
             r1 == BWrite(c1.w, <<OrWithName(a.flags)>> \o PutLE(a.offset, 8))
             r2 == BWrite(r1.w, a.streamName)
             r3 == BWrite(r2.w, <<0>>)
         IN  IF r1.err # "nil" THEN [c |-> c1, n |-> 0, err |-> r1.err]
             ELSE IF r2.err # "nil" THEN [c |-> [c1 EXCEPT !.w = r1.w], n |-> 9, err |-> r2.err]
             ELSE IF r3.err # "nil"
                  THEN [c |-> [c1 EXCEPT !.w = r2.w], n |-> 9 + r2.n, err |-> r3.err]
             ELSE [c |-> [c1 EXCEPT !.w = r3.w], n |-> 9 + r2.n + 1, err |-> "nil"]

\* uint16(len(c.streams)): the ordinal stored for the stream that is added to
\* a map of n streams
Ordinal(n) == U16(n)

\* action.write
actionWrite(cl, a) ==
    IF HasStream(cl, a.streamName)
    THEN LET r == BWrite(cl.w, <<a.flags>> \o PutLE(cl.streams[a.streamName].number, 2))
         IN  IF r.err # "nil" THEN [c |-> cl, n |-> 0, err |-> r.err]
             ELSE [c |-> [cl EXCEPT !.w = r.w], n |-> r.n, err |-> "nil"]
    ELSE LET index == Ordinal(Cardinality(DOMAIN cl.streams))
             c1 == PutStream(cl, a.streamName, newStreamLog(index, a.offset))
             r1 == BWrite(c1.w, <<OrWithName(a.flags)>> \o PutLE(a.offset, 8))
             r2 == BWrite(r1.w, a.streamName)
             r3 == BWrite(r2.w, <<0>>)
         IN  IF r1.err # "nil" THEN [c |-> c1, n |-> 0, err |-> r1.err]
             ELSE IF r2.err # "nil" THEN [c |-> [c1 EXCEPT !.w = r1.w], n |-> 9, err |-> r2.err]
             ELSE IF r3.err # "nil"
                  THEN [c |-> [c1 EXCEPT !.w = r2.w], n |-> 9 + r2.n, err |-> r3.err]
             ELSE [c |-> [c1 EXCEPT !.w = r3.w], n |-> 9 + r2.n + 1, err |-> "nil"]

\* a fatAppend that moves lastFatIndex but leaves the old last entry unlinked
fatAppendUnlinked(cl, name, dlen, pos) ==
    LET s == cl.streams[name]
        l == U16(Len(cl.fat))
        s1 == IF s.length = 0
              THEN [s EXCEPT !.firstFatIndex = l, !.lastFatIndex = l]
              ELSE [s EXCEPT !.lastFatIndex = l]
        c1 == PutStream(cl, name, [s1 EXCEPT !.length = @ + dlen])
    IN  [c1 EXCEPT !.fat = Append(cl.fat, [next |-> 0, pos |-> pos, length |-> dlen])]

\* uint16(len(c.fat)): the index stored for the entry that is appended to a
\* pool of n entries
FatIndex(n) == U16(n)

\* The FAT part of appendAction.write and appendAction.recover: link a new
\* entry of dlen bytes at file position pos to the stream's chain.
fatAppend(cl, name, dlen, pos) ==
    LET s == cl.streams[name]
        l == FatIndex(Len(cl.fat))
        s1 == IF s.length = 0
              THEN [s EXCEPT !.firstFatIndex = l, !.lastFatIndex = l]
              ELSE [s EXCEPT !.lastFatIndex = l]
        fat1 == IF s.length = 0 THEN cl.fat
                ELSE [cl.fat EXCEPT ![s.lastFatIndex + 1].next = l]
        c1 == PutStream(cl, name, [s1 EXCEPT !.length = @ + dlen])
    IN  [c1 EXCEPT !.fat = Append(fat1, [next |-> 0, pos |-> pos, length |-> dlen])]

\* appendAction.write
appendWrite(cl, a) ==
    LET Payload(c2, n1, r2) ==
            IF r2.err # "nil" THEN [c |-> c2, n |-> n1, err |-> r2.err]
            ELSE [c |-> [c2 EXCEPT !.w = r2.w], n |-> n1 + Len(a.data), err |-> "nil"]
        Extent(c2, n1) == Payload(c2, n1, BWrite(c2.w, a.data))
        Length(r0, r1) ==
            IF r1.err # "nil" THEN [c |-> r0.c, n |-> r0.n, err |-> r1.err]
            ELSE Extent(fatAppend([r0.c EXCEPT !.w = r1.w], a.streamName, Len(a.data),
                                  cl.size + r0.n + 4),
                        r0.n + 4)
        Header(r0) ==
            IF r0.err # "nil" THEN r0
            ELSE Length(r0, BWrite(r0.c.w, PutLE(U32(Len(a.data)), 4)))
    IN  Header(actionWrite(cl, a))

\* a pollardAction.write that also moves the first offset of the stream
pollardWriteRebase(cl, a) ==
    LET Position(r0, r1) ==
            IF r1.err # "nil" THEN [c |-> r0.c, n |-> r0.n, err |-> r1.err]
            ELSE [c |-> PutStream([r0.c EXCEPT !.w = r1.w], a.streamName,
                                  [r0.c.streams[a.streamName]
                                      EXCEPT !.keepOffset = a.pollardPos,
                                             !.offset = a.pollardPos]),
                  n |-> r0.n + 8, err |-> "nil"]
        Header(r0) ==
            IF r0.err # "nil" THEN r0
            ELSE Position(r0, BWrite(r0.c.w, PutLE(a.pollardPos, 8)))
    IN  Header(actionWrite(cl, a))

\* a pollardAction.write that writes the record and leaves keepOffset alone
pollardWriteOnly(cl, a) ==
    LET Position(r0, r1) ==
            IF r1.err # "nil" THEN [c |-> r0.c, n |-> r0.n, err |-> r1.err]
            ELSE [c |-> [r0.c EXCEPT !.w = r1.w], n |-> r0.n + 8, err |-> "nil"]
        Header(r0) ==
            IF r0.err # "nil" THEN r0
            ELSE Position(r0, BWrite(r0.c.w, PutLE(a.pollardPos, 8)))
    IN  Header(actionWrite(cl, a))

\* pollardAction.write
pollardWrite(cl, a) ==
    LET Position(r0, r1) ==
            IF r1.err # "nil" THEN [c |-> r0.c, n |-> r0.n, err |-> r1.err]
            ELSE [c |-> PutStream([r0.c EXCEPT !.w = r1.w], a.streamName,
                                  [r0.c.streams[a.streamName]
                                      EXCEPT !.keepOffset = a.pollardPos]),
                  n |-> r0.n + 8, err |-> "nil"]
        Header(r0) ==
            IF r0.err # "nil" THEN r0
            ELSE Position(r0, BWrite(r0.c.w, PutLE(a.pollardPos, 8)))
    IN  Header(actionWrite(cl, a))

\* actionIface.write
write(cl, a) == IF a.kind = "append" THEN appendWrite(cl, a) ELSE pollardWrite(cl, a)

\* commitLog.commit: the result is [c, file, err, sync], where sync is what
\* c.w.Sync() returned; commit does not look at it.
commit(cl, f, a, fault) ==
    IF cl.finalized THEN [c |-> cl, file |-> f, err |-> "finalized", sync |-> "nil"]
    ELSE LET Synced(r, sy) ==
                 [c |-> [r.c EXCEPT !.size = @ + r.n, !.w = sy.w],
                  file |-> sy.file, err |-> "nil", sync |-> sy.err]
             Written(r) ==
                 IF r.err # "nil" THEN [c |-> r.c, file |-> f, err |-> r.err, sync |-> "nil"]
                 ELSE Synced(r, writerSync(r.c.w, f, fault))
         IN  Written(write(cl, a))

\* --------------------------------------------------------------- open reads
\* commitLog.streamRange
streamRange(cl, name) ==
    IF ~HasStream(cl, name) THEN [From |-> 0, To |-> 0, err |-> "notexist"]
    ELSE LET s == cl.streams[name]
         IN  [From |-> s.keepOffset, To |-> s.offset + s.length, err |-> "nil"]

\* os.File.ReadAt of cnt bytes at offset off; a zero-length read never
\* reaches the descriptor.
ReadAt(w, f, cnt, off) ==
    IF off < 0 THEN [n |-> 0, data |-> <<>>, err |-> "invalid"]
    ELSE IF cnt = 0 THEN [n |-> 0, data |-> <<>>, err |-> "nil"]
    ELSE IF w.closed THEN [n |-> 0, data |-> <<>>, err |-> "closed"]
    ELSE IF off + cnt <= Len(f) THEN [n |-> cnt, data |-> Slice(f, off, off + cnt), err |-> "nil"]
    ELSE [n |-> Max(0, Len(f) - off), data |-> Slice(f, off, Max(off, Len(f))), err |-> "eof"]

\* first loop of readStream: the extent that holds offset
RECURSIVE seekFat(_, _, _, _)
seekFat(fat, findex, foffset, offset) ==
    IF findex >= Len(fat) THEN [panic |-> "index", findex |-> findex, foffset |-> foffset]
    ELSE IF offset >= foffset + fat[findex + 1].length
    THEN IF fat[findex + 1].next = 0
         THEN [panic |-> "Oooops", findex |-> findex, foffset |-> foffset]
         ELSE seekFat(fat, fat[findex + 1].next, foffset + fat[findex + 1].length, offset)
    ELSE [panic |-> "none", findex |-> findex, foffset |-> foffset]

\* second loop of readStream: positioned reads across successive extents.
\* fuel counts the iterations left before the walk is known to repeat.
RECURSIVE readLoop(_, _, _, _, _, _, _, _)
readLoop(cl, f, findex, foffset, offset, toRead, data, fuel) ==
    IF toRead <= 0 THEN [n |-> Len(data), data |-> data, err |-> "nil", panic |-> "none"]
    ELSE IF fuel = 0 THEN [n |-> 0, data |-> data, err |-> "nil", panic |-> "hang"]
    ELSE IF findex >= Len(cl.fat) THEN [n |-> 0, data |-> data, err |-> "nil", panic |-> "index"]
    ELSE LET e == cl.fat[findex + 1]
             posOffset == offset - foffset
             rc0 == e.length - posOffset
             readCount == IF rc0 > toRead THEN toRead ELSE rc0
             r == ReadAt(cl.w, f, readCount, e.pos + posOffset)
         IN  IF readCount < 0 THEN [n |-> 0, data |-> data, err |-> "nil", panic |-> "slice"]
             ELSE IF r.err # "nil"
             THEN [n |-> 0, data |-> data \o r.data, err |-> "nil", panic |-> "none"]
             ELSE readLoop(cl, f, e.next, foffset + e.length, offset + readCount,
                           toRead - r.n, data \o r.data, fuel - 1)

\* commitLog.readStream with a buffer of len bytes
readStream(cl, f, name, offset, len) ==
    IF ~HasStream(cl, name) THEN [n |-> 0, data |-> <<>>, err |-> "notexist", panic |-> "none"]
    ELSE LET s == cl.streams[name]
         IN  IF offset < s.keepOffset \/ offset + len > s.offset + s.length
             THEN [n |-> 0, data |-> <<>>, err |-> "invalid", panic |-> "none"]
             ELSE LET p == seekFat(cl.fat, s.firstFatIndex, s.offset, offset)
                  IN  IF p.panic # "none"
                      THEN [n |-> 0, data |-> <<>>, err |-> "nil", panic |-> p.panic]
                      ELSE readLoop(cl, f, p.findex, p.foffset, offset, len, <<>>,
                                    Len(cl.fat) + len + 1)

\* ------------------------------------------------------------------ recovery
\* The reader of recover: pos counts the bytes consumed from the file,
\* names is reader.names.  Every parser returns [err, r, a].
NoAction == [flags |-> 0, offset |-> 0, streamName |-> <<>>, data |-> <<>>, pollardPos |-> 0]

\* 0-based index of the first zero byte of f at or after pos, Len(f) if none
RECURSIVE findZero(_, _)
findZero(f, pos) ==
    IF pos >= Len(f) THEN Len(f) ELSE IF f[pos + 1] = 0 THEN pos ELSE findZero(f, pos + 1)

\* action.read
actionRead(f, r) ==
    IF r.pos >= Len(f) THEN [err |-> "eof", r |-> r, a |-> NoAction]
    ELSE LET flags == f[r.pos + 1]
             p1 == r.pos + 1
             eof == [err |-> "eof", r |-> [r EXCEPT !.pos = Len(f)], a |-> NoAction]
         IN  IF HasName(flags)
             THEN IF p1 + 8 > Len(f) THEN eof
                  ELSE LET z == findZero(f, p1 + 8)
                           nm == Slice(f, p1 + 8, z)
                       IN  IF z >= Len(f) THEN eof
                           ELSE [err |-> "nil",
                                 r |-> [pos |-> z + 1, names |-> Append(r.names, nm)],
                                 a |-> [NoAction EXCEPT !.flags = flags,
                                            !.offset = GetLE(f, p1, 8), !.streamName = nm]]
             ELSE IF p1 + 2 > Len(f) THEN eof
                  ELSE LET index == GetLE(f, p1, 2)
                       IN  IF index >= U16(Len(r.names))
                           THEN [err |-> "Wrong index", r |-> [r EXCEPT !.pos = p1 + 2],
                                 a |-> NoAction]
                           ELSE [err |-> "nil", r |-> [r EXCEPT !.pos = p1 + 2],
                                 a |-> [NoAction EXCEPT !.flags = flags,
                                            !.streamName = r.names[index + 1]]]

\* appendAction.read
appendRead(f, r) ==
    LET Payload(h, p, l) ==
            IF p + 4 > Len(f) \/ p + 4 + l > Len(f)
            THEN [err |-> "eof", r |-> [h.r EXCEPT !.pos = Len(f)], a |-> h.a]
            ELSE [err |-> "nil", r |-> [h.r EXCEPT !.pos = p + 4 + l],
                  a |-> [h.a EXCEPT !.data = Slice(f, p + 4, p + 4 + l)]]
        Length(h) == IF h.err # "nil" THEN h ELSE Payload(h, h.r.pos, GetLE(f, h.r.pos, 4))
    IN  Length(actionRead(f, r))

\* pollardAction.read
pollardRead(f, r) ==
    LET Position(h, p) ==
            IF h.err # "nil" THEN h
            ELSE IF p + 8 > Len(f)
            THEN [err |-> "eof", r |-> [h.r EXCEPT !.pos = Len(f)], a |-> h.a]
            ELSE [err |-> "nil", r |-> [h.r EXCEPT !.pos = p + 8],
                  a |-> [h.a EXCEPT !.pollardPos = GetLE(f, p, 8)]]
        Header(h) == Position(h, h.r.pos)
    IN  Header(actionRead(f, r))

\* action.recover: the result is [c, n]
actionRecover(cl, a) ==
    IF HasStream(cl, a.streamName) THEN [c |-> cl, n |-> 3]
    ELSE [c |-> PutStream(cl, a.streamName,
                          newStreamLog(Ordinal(Cardinality(DOMAIN cl.streams)), a.offset)),
          n |-> 9 + Len(a.streamName) + 1]

\* appendAction.recover
appendRecover(cl, a) ==
    LET Extent(r0) ==
            [c |-> fatAppend(r0.c, a.streamName, Len(a.data), cl.size + r0.n + 4),
             n |-> r0.n + 4 + Len(a.data)]
    IN  Extent(actionRecover(cl, a))

\* pollardAction.recover
pollardRecover(cl, a) ==
    LET Position(r0) ==
            [c |-> PutStream(r0.c, a.streamName,
                             [r0.c.streams[a.streamName] EXCEPT !.keepOffset = a.pollardPos]),
             n |-> r0.n + 8]
    IN  Position(actionRecover(cl, a))

\* The replay loop of commitLog.recover.  A `break` inside the switch leaves
\* the switch only: after a failed parse, and for an unknown kind, the loop
\* goes on.  An unknown kind consumes nothing and changes nothing, so the
\* loop repeats for ever ("hang").
RECURSIVE recoverLoop(_, _, _, _)
recoverLoop(cl, f, r, size) ==
    IF ~(cl.size < size) THEN [c |-> cl, r |-> r, out |-> "done"]
    ELSE IF r.pos >= Len(f) THEN [c |-> cl, r |-> r, out |-> "done"]
    ELSE LET k == Kind(f[r.pos + 1])
             Applied(rd, ap) ==
                 recoverLoop([ap.c EXCEPT !.size = cl.size + ap.n], f, rd.r, size)
             GotAppend(rd) ==
                 IF rd.err # "nil" THEN recoverLoop(cl, f, rd.r, size)
                 ELSE Applied(rd, appendRecover(cl, rd.a))
             GotPollard(rd) ==
                 IF rd.err # "nil" THEN recoverLoop(cl, f, rd.r, size)
                 ELSE Applied(rd, pollardRecover(cl, rd.a))
         IN  IF k = flagAppend THEN GotAppend(appendRead(f, r))
             ELSE IF k = flagPollard THEN GotPollard(pollardRead(f, r))
             ELSE IF k = flagDict
             THEN [c |-> [cl EXCEPT !.finalized = TRUE], r |-> r, out |-> "finalized"]
             ELSE [c |-> cl, r |-> r, out |-> "hang"]

\* a recover that leaves the torn tail in the file
TruncateSkipped(f, n) == f

\* os.File.Truncate
Truncate(f, n) == [i \in 1..n |-> IF i <= Len(f) THEN f[i] ELSE 0]

\* commitLog.recover: the result is [c, file, err].  The writer is made on
\* the handle the reader used, whose offset is what the bufio reader pulled
\* from the file: all of it, as soon as one byte was asked for.
recover(cl, f) ==
    LET size == Len(f)
        fpos == IF cl.size < size THEN Min(size, BufioSize) ELSE 0
        Replayed(l) ==
            IF l.out = "finalized" THEN [c |-> l.c, file |-> f, err |-> "finalized"]
            ELSE IF l.out = "hang" THEN [c |-> l.c, file |-> f, err |-> "hang"]
            ELSE [c |-> [l.c EXCEPT !.w = newWriter(fpos)],
                  file |-> IF l.c.size # size THEN Truncate(f, l.c.size) ELSE f,
                  err |-> "nil"]
    IN  Replayed(recoverLoop(cl, f, [pos |-> 0, names |-> <<>>], size))

\* a close that does not look at the finalized flag
closeUnchecked(cl) ==
    IF cl.w.nil \/ cl.w.closed THEN [c |-> cl, err |-> "closed"]
    ELSE [c |-> [cl EXCEPT !.w.closed = TRUE], err |-> "nil"]

\* commitLog.close: the result is [c, err]
close(cl) ==
    IF cl.finalized THEN [c |-> cl, err |-> "finalized"]
    ELSE IF cl.w.closed THEN [c |-> cl, err |-> "closed"]
    ELSE [c |-> [cl EXCEPT !.w.closed = TRUE], err |-> "nil"]

\* -------------------------------------------------------------------- sealer
\* byte-wise a < b, the order of sort.Strings
RECURSIVE LexLess(_, _)
LexLess(a, b) ==
    IF Len(b) = 0 THEN FALSE
    ELSE IF Len(a) = 0 THEN TRUE
    ELSE IF a[1] # b[1] THEN a[1] < b[1]
    ELSE LexLess(Tail(a), Tail(b))

\* a sort that puts the largest name first
RECURSIVE sortStringsDescending(_)
sortStringsDescending(S) ==
    IF S = {} THEN <<>>
    ELSE LET m == CHOOSE x \in S : \A y \in S \ {x} : LexLess(y, x)
         IN  <<m>> \o sortStringsDescending(S \ {m})

\* sort.Strings over the names of the stream map
RECURSIVE sortStrings(_)
sortStrings(S) ==
    IF S = {} THEN <<>>
    ELSE LET m == CHOOSE x \in S : \A y \in S \ {x} : LexLess(x, y)
         IN  <<m>> \o sortStrings(S \ {m})

\* the FAT loops of a writeDictSubtree that emits the extent that straddles
\* keepOffset whole
RECURSIVE dictPiecesWhole(_, _, _, _)
dictPiecesWhole(cl, s, fatIndex, foffset) ==
    IF fatIndex >= Len(cl.fat) THEN [panic |-> "index", pieces |-> <<>>]
    ELSE LET e == cl.fat[fatIndex + 1]
             live == e.length > 0 /\ foffset + e.length > s.keepOffset
             me == IF live THEN <<[pos |-> U32(e.pos), length |-> U32(e.length)]>> ELSE <<>>
             rest == dictPiecesWhole(cl, s, e.next, foffset + e.length)
         IN  IF e.next = 0 THEN [panic |-> "none", pieces |-> me]
             ELSE [panic |-> rest.panic, pieces |-> me \o rest.pieces]

\* The two FAT loops of writeDictSubtree (they walk alike): the pieces of
\* the live range from pool index fatIndex on, or a panic when the index
\* is outside the pool.
RECURSIVE dictPieces(_, _, _, _)
dictPieces(cl, s, fatIndex, foffset) ==
    IF fatIndex >= Len(cl.fat) THEN [panic |-> "index", pieces |-> <<>>]
    ELSE LET e == cl.fat[fatIndex + 1]
             live == e.length > 0 /\ foffset + e.length > s.keepOffset
             skip == IF foffset < s.keepOffset THEN U32(s.keepOffset - foffset) ELSE 0
             me == IF live
                   THEN <<[pos |-> U32(U32(e.pos) + skip),
                           length |-> U32(U32(e.length) - skip)]>>
                   ELSE <<>>
             rest == dictPieces(cl, s, e.next, foffset + e.length)
         IN  IF e.next = 0 THEN [panic |-> "none", pieces |-> me]
             ELSE [panic |-> rest.panic, pieces |-> me \o rest.pieces]

RECURSIVE encodePieces(_)
encodePieces(ps) ==
    IF Len(ps) = 0 THEN <<>>
    ELSE PutLE(ps[1].pos, 4) \o PutLE(ps[1].length, 4) \o encodePieces(Tail(ps))

\* binary.LittleEndian.PutUint32(buf.Bytes()[pos:], v)
Patch32(buf, pos, v) ==
    [i \in 1..Len(buf) |-> IF i > pos /\ i <= pos + 4 THEN PutLE(v, 4)[i - pos] ELSE buf[i]]

\* commitLog.writeDictSubtree: the result is [buf, pos, panic]
RECURSIVE writeDictSubtree(_, _, _)
writeDictSubtree(cl, buf, names) ==
    IF Len(names) = 0 THEN [buf |-> buf, pos |-> 0, panic |-> "none"]
    ELSE LET middle == Len(names) \div 2
             pos == Len(buf)
             n == names[middle + 1]
             s == cl.streams[n]
             None(b) == [buf |-> b, pos |-> 0, panic |-> "none"]
             RightDone(b1, right) ==
                 IF right.panic # "none" THEN right
                 ELSE [buf |-> IF middle + 1 # Len(names)
                               THEN Patch32(right.buf, pos + 4, U32(right.pos)) ELSE b1,
                       pos |-> pos, panic |-> "none"]
             Right(b1) ==
                 RightDone(b1, IF middle + 1 # Len(names)
                               THEN writeDictSubtree(cl, b1, Slice(names, middle + 1, Len(names)))
                               ELSE None(b1))
             LeftDone(node, left) ==
                 IF left.panic # "none" THEN left
                 ELSE Right(IF middle > 0 THEN Patch32(left.buf, pos, U32(left.pos)) ELSE node)
             Left(node) ==
                 LeftDone(node, IF middle > 0
                                THEN writeDictSubtree(cl, node, Slice(names, 0, middle))
                                ELSE None(node))
             Node(ps) ==
                 IF ps.panic # "none" THEN [buf |-> buf, pos |-> 0, panic |-> ps.panic]
                 ELSE Left(buf \o PutLE(0, 8) \o n \o <<0>>
                               \o PutLE(s.keepOffset, 8) \o PutLE(s.offset + s.length, 8)
                               \o PutLE(U16(Len(ps.pieces)), 2) \o encodePieces(ps.pieces))
         IN  Node(dictPieces(cl, s, s.firstFatIndex, s.offset))

\* the last 8 bytes of the trailer
Magic == <<42, 0, 42, 0, 42, 255, 42, 255>>

\* a finalize whose trailer counts the dictionary without its flag byte
finalizeCountsBody(cl, f, fault) ==
    IF cl.finalized THEN [c |-> cl, file |-> f, err |-> "finalized"]
    ELSE LET Synced(fl, sy) ==
                 IF sy # "nil" THEN [c |-> [cl EXCEPT !.w = fl.w], file |-> fl.file, err |-> sy]
                 ELSE [c |-> [cl EXCEPT !.w = [fl.w EXCEPT !.closed = TRUE],
                                        !.finalized = TRUE],
                       file |-> fl.file, err |-> "nil"]
             Flushed(fl) ==
                 IF fl.err # "nil"
                 THEN [c |-> [cl EXCEPT !.w = fl.w], file |-> fl.file, err |-> fl.err]
                 ELSE Synced(fl, FSync(fl.w, fault))
             Written(wr) ==
                 IF wr.err # "nil" THEN [c |-> cl, file |-> f, err |-> wr.err]
                 ELSE Flushed(Flush(wr.w, f, fault))
             Tree(t) ==
                 IF t.panic # "none" THEN [c |-> cl, file |-> f, err |-> "panic"]
                 ELSE Written(BWrite(cl.w, t.buf \o PutLE(Len(t.buf) - 1, 8) \o Magic))
         IN  Tree(writeDictSubtree(cl, <<flagDict>>, sortStrings(DOMAIN cl.streams)))

\* commitLog.finalize: the result is [c, file, err]
finalize(cl, f, fault) ==
    IF cl.finalized THEN [c |-> cl, file |-> f, err |-> "finalized"]
    ELSE LET Synced(fl, sy) ==
                 IF sy # "nil" THEN [c |-> [cl EXCEPT !.w = fl.w], file |-> fl.file, err |-> sy]
                 ELSE [c |-> [cl EXCEPT !.w = [fl.w EXCEPT !.closed = TRUE],
                                        !.finalized = TRUE],
                       file |-> fl.file, err |-> "nil"]
             Flushed(fl) ==
                 IF fl.err # "nil"
                 THEN [c |-> [cl EXCEPT !.w = fl.w], file |-> fl.file, err |-> fl.err]
                 ELSE Synced(fl, FSync(fl.w, fault))
             Written(wr) ==
                 IF wr.err # "nil" THEN [c |-> cl, file |-> f, err |-> wr.err]
                 ELSE Flushed(Flush(wr.w, f, fault))
             Tree(t) ==
                 IF t.panic # "none" THEN [c |-> cl, file |-> f, err |-> "panic"]
                 ELSE Written(BWrite(cl.w, t.buf \o PutLE(Len(t.buf), 8) \o Magic))
         IN  Tree(writeDictSubtree(cl, <<flagDict>>, sortStrings(DOMAIN cl.streams)))

\* ------------------------------------------------------------- sealed reader
\* the file handle of a logReader
ReaderHandle == newWriter(0)

\* logReader.open: the result is [dict, err]
open(f) ==
    LET n == Len(f)
        buf == Slice(f, n - 16, n)
        size == GetLE(buf, 0, 8)
    IN  IF n < 16 THEN [dict |-> <<>>, err |-> "invalid"]
        ELSE IF Slice(buf, 8, 16) # Magic THEN [dict |-> <<>>, err |-> "invalid"]
        ELSE IF n - 16 - size < 0 THEN [dict |-> <<>>, err |-> "invalid"]
        ELSE [dict |-> Slice(f, n - 16 - size, n - 16), err |-> "nil"]

\* the inner loop of search: compare the name at node pos with streamName
\* from byte i on; "lt" when the node's name is smaller
RECURSIVE cmpName(_, _, _, _)
cmpName(dict, pos, name, i) ==
    IF i = Len(name) THEN "eq"
    ELSE IF pos + 8 + i >= Len(dict) THEN "panic"
    ELSE IF dict[pos + 8 + i + 1] < name[i + 1] THEN "lt"
    ELSE IF dict[pos + 8 + i + 1] > name[i + 1] THEN "gt"
    ELSE cmpName(dict, pos, name, i + 1)

\* the descent of search: the position after the matched name, or 0
RECURSIVE searchNode(_, _, _, _)
searchNode(dict, pos, name, fuel) ==
    LET k == cmpName(dict, pos, name, 0)
        child(off) == IF pos + off + 4 > Len(dict) THEN -1 ELSE GetLE(dict, pos + off, 4)
        nxt == IF k = "lt" THEN child(4)
               ELSE IF k = "gt" THEN child(0)
               ELSE IF pos + 8 + Len(name) >= Len(dict) THEN -1
               ELSE IF dict[pos + 8 + Len(name) + 1] # 0 THEN child(0)
               ELSE -2
    IN  IF k = "panic" \/ nxt = -1 THEN [panic |-> "index", pos |-> 0, found |-> FALSE]
        ELSE IF nxt = -2
        THEN [panic |-> "none", pos |-> pos + 8 + Len(name) + 1, found |-> TRUE]
        ELSE IF nxt = 0 THEN [panic |-> "none", pos |-> 0, found |-> FALSE]
        ELSE IF fuel = 0 THEN [panic |-> "hang", pos |-> 0, found |-> FALSE]
        ELSE searchNode(dict, nxt, name, fuel - 1)

\* logReader.search: the result is [span, pieces, err, panic]
search(dict, name) ==
    LET d == searchNode(dict, 1, name, Len(dict))
        pos == d.pos
        count == GetLE(dict, pos + 16, 2)
        none == [span |-> [From |-> 0, To |-> 0], pieces |-> <<>>]
    IN  IF d.panic # "none" THEN none @@ [err |-> "nil", panic |-> d.panic]
        ELSE IF ~d.found THEN none @@ [err |-> "notexist", panic |-> "none"]
        ELSE IF pos + 18 > Len(dict) \/ pos + 18 + 8 * count > Len(dict)
        THEN none @@ [err |-> "nil", panic |-> "index"]
        ELSE [span |-> [From |-> GetLE(dict, pos, 8), To |-> GetLE(dict, pos + 8, 8)],
              pieces |-> [i \in 1..count |->
                             [pos |-> GetLE(dict, pos + 18 + 8 * (i - 1), 4),
                              length |-> GetLE(dict, pos + 18 + 8 * (i - 1) + 4, 4)]],
              err |-> "nil", panic |-> "none"]

\* first loop of logReader.read: the piece that holds offset
RECURSIVE seekPiece(_, _, _, _)
seekPiece(pieces, piece, eoffset, offset) ==
    IF piece >= Len(pieces) THEN [panic |-> "index", piece |-> piece, eoffset |-> eoffset]
    ELSE IF offset >= eoffset + pieces[piece + 1].length
    THEN seekPiece(pieces, piece + 1, eoffset + pieces[piece + 1].length, offset)
    ELSE [panic |-> "none", piece |-> piece, eoffset |-> eoffset]

\* second loop of logReader.read
RECURSIVE readPieces(_, _, _, _, _, _, _)
readPieces(pieces, f, piece, eoffset, offset, toRead, data) ==
    IF toRead <= 0 THEN [data |-> data, err |-> "nil", panic |-> "none"]
    ELSE IF piece >= Len(pieces) THEN [data |-> data, err |-> "nil", panic |-> "index"]
    ELSE LET e == pieces[piece + 1]
             posOffset == U32(offset - eoffset)
             rc0 == U32(e.length - posOffset)
             readCount == IF rc0 > toRead THEN toRead ELSE rc0
             r == ReadAt(ReaderHandle, f, readCount, U32(e.pos + posOffset))
         IN  IF r.err # "nil" THEN [data |-> data \o r.data, err |-> r.err, panic |-> "none"]
             ELSE readPieces(pieces, f, piece + 1, eoffset + e.length, offset + readCount,
                             toRead - r.n, data \o r.data)

\* logReader.read of len bytes of entry e: the result is [data, err, panic]
read(e, f, offset, len) ==
    IF offset < e.span.From \/ offset + len > e.span.To
    THEN [data |-> <<>>, err |-> "invalid", panic |-> "none"]
    ELSE LET p == seekPiece(e.pieces, 0, e.span.From, offset)
         IN  IF p.panic # "none" THEN [data |-> <<>>, err |-> "nil", panic |-> p.panic]
             ELSE readPieces(e.pieces, f, p.piece, p.eoffset, offset, len, <<>>)

\* ----------------------------------------------------------------- actions
\* what recover rebuilds of a commitLog
Core(cl) == [streams |-> cl.streams, fat |-> cl.fat, size |-> cl.size]

NoPre == [c |-> newCommitLog, file |-> <<>>]
Ret(op, err) == [op |-> op, err |-> err, sync |-> "nil", pre |-> NoPre, a |-> NoAction]

\* The caller's record of one commitLog object: how the object was opened,
\* and for each stream the offset field of the first action committed to it,
\* the payloads of the append commits that returned no error, in order, and
\* whether a pollard was committed to it.
NoRecord == [origin |-> "none", base |-> <<>>, data |-> <<>>, polled |-> {}]
Known(name) == name \in DOMAIN g.data
record(gr, a) ==
    LET old == IF a.streamName \in DOMAIN gr.data THEN gr.data[a.streamName] ELSE <<>>
        b == IF a.streamName \in DOMAIN gr.base THEN gr.base[a.streamName] ELSE a.offset
        D == (DOMAIN gr.data) \cup {a.streamName}
    IN  [gr EXCEPT !.polled = IF a.kind = "pollard" THEN @ \cup {a.streamName} ELSE @,
                   !.base = [x \in D |-> IF x = a.streamName THEN b ELSE gr.base[x]],
                   !.data = [x \in D |-> IF x = a.streamName THEN old \o a.data
                                          ELSE gr.data[x]]]

\* a commitLog as newCommitLog() returns it, in a process that is running
Fresh == c = newCommitLog /\ ret.op \in {"new", "tear", "garbage"}
\* a commitLog that create or recover has returned
Usable == (~c.w.nil \/ c.finalized) /\ ret.err \notin {"hang", "panic"}

\* the payload of the k-th commit call: L bytes no other commit writes
Data(k, L) == [i \in 1..L |-> 16 * k + i]

\* The offset field of an action is read at the stream's first mention in
\* the log only (action.write); for a stream already in the log the callers
\* pass its end offset (Frontend.Append, Frontend.Pollard).
OffsetFields(nm) ==
    IF HasStream(c, nm) THEN {c.streams[nm].offset + c.streams[nm].length}
    ELSE 0..MaxBase

AppendActions(k) ==
    UNION {{[kind |-> "append", flags |-> flagAppend, offset |-> o, streamName |-> nm,
             data |-> Data(k, L), pollardPos |-> 0] :
                o \in OffsetFields(nm), L \in 0..MaxData} : nm \in Names}

PollardActions ==
    UNION {{[kind |-> "pollard", flags |-> flagPollard, offset |-> o, streamName |-> nm,
             data |-> <<>>, pollardPos |-> p] :
                o \in OffsetFields(nm), p \in 0..MaxPos} : nm \in Names}

NoSnap == [valid |-> FALSE, c |-> newCommitLog, file |-> <<>>]

\* The directory before NewFrontend has run.  dir holds the bytes of the
\* files commit_0000.log, commit_0001.log, ... in this order; logFiles and
\* logReaders hold file numbers, active is the number of the file of f.log.
NoFrontend == [open |-> FALSE, dir |-> <<>>, logFiles |-> <<>>, logReaders |-> <<>>,
               active |-> 0]

Init ==
    /\ c = newCommitLog
    /\ file = <<>>
    /\ ret = Ret("new", "nil")
    /\ g = NoRecord
    /\ closeSnap = NoSnap
    /\ snaps = <<>>
    /\ clean = TRUE
    /\ ncommit = 0
    /\ nlogs = 1
    /\ fe = NoFrontend

\* c.create(filename): os.Create empties the file
Create ==
    /\ Fresh
    /\ c' = [c EXCEPT !.w = newWriter(0)]
    /\ file' = <<>>
    /\ ret' = Ret("create", "nil")
    /\ g' = [NoRecord EXCEPT !.origin = "create"]
    /\ snaps' = <<>>
    /\ clean' = TRUE
    /\ UNCHANGED <<closeSnap, ncommit, nlogs, fe>>

\* the last record boundary the file still reaches, and the state after it
LastKept ==
    IF Len(snaps) = 0 THEN [len |-> 0, core |-> Core(newCommitLog)]
    ELSE snaps[Len(snaps)]

\* c.commit(a)
DoCommit(a, fault, max) ==
    /\ Usable
    /\ ncommit < max
    /\ \E r \in {commit(c, file, a, fault)} :
       LET landed == /\ r.file # file
                     /\ Len(r.file) = r.c.size
                     /\ Len(file) = c.size
                     /\ Core(c) = LastKept.core
                     /\ Slice(r.file, 0, Len(file)) = file
       IN  /\ c' = r.c
           /\ file' = r.file
           /\ ret' = [Ret("commit", r.err) EXCEPT !.a = a, !.sync = r.sync]
           /\ g' = IF r.err = "nil" THEN record(g, a) ELSE g
           /\ snaps' = IF r.err = "nil" /\ clean /\ landed
                       THEN Append(snaps, [len |-> Len(r.file), core |-> Core(r.c)])
                       ELSE snaps
           /\ clean' = (clean /\ (r.file = file \/ landed))
    /\ ncommit' = ncommit + 1
    /\ UNCHANGED <<closeSnap, nlogs, fe>>

Commit ==
    \E a \in AppendActions(ncommit + 1) \cup PollardActions : DoCommit(a, "none", MaxCommits)

\* the same, for the behaviours of a created log
CommitOpen ==
    \E a \in AppendActions(ncommit + 1) \cup PollardActions :
        DoCommit(a, "none", MaxOpenCommits)

\* c.close()
Close ==
    /\ Usable
    /\ \E r \in {close(c)} :
           /\ c' = r.c
           /\ ret' = Ret("close", r.err)
           /\ closeSnap' = IF r.err = "nil"
                           THEN [valid |-> TRUE, c |-> c, file |-> file]
                           ELSE closeSnap
    /\ UNCHANGED <<file, g, snaps, clean, ncommit, nlogs, fe>>

\* c.finalize()
Finalize ==
    /\ Usable
    /\ \E r \in {finalize(c, file, "none")} :
           /\ c' = r.c
           /\ file' = r.file
           /\ ret' = [Ret("finalize", r.err) EXCEPT !.pre = [c |-> c, file |-> file]]
           /\ clean' = (clean /\ r.file = file)
    /\ UNCHANGED <<g, closeSnap, snaps, ncommit, nlogs, fe>>

\* The process ends (exit or crash) and a later one calls newCommitLog().
NewLog ==
    /\ c # newCommitLog
    /\ nlogs < MaxLogs
    /\ c' = newCommitLog
    /\ ret' = Ret("new", "nil")
    /\ g' = NoRecord
    /\ nlogs' = nlogs + 1
    /\ UNCHANGED <<file, closeSnap, snaps, clean, ncommit, fe>>

\* A crash left the file cut short by k bytes.
RECURSIVE keepSnaps(_, _)
keepSnaps(sn, n) ==
    IF Len(sn) = 0 THEN <<>>
    ELSE IF sn[1].len <= n THEN <<sn[1]>> \o keepSnaps(Tail(sn), n)
    ELSE <<>>

Tear ==
    /\ c = newCommitLog /\ ret.op = "new"
    /\ \E k \in 1..Min(MaxTear, Len(file)) :
        /\ file' = Slice(file, 0, Len(file) - k)
        /\ snaps' = keepSnaps(snaps, Len(file) - k)
    /\ ret' = Ret("tear", "nil")
    /\ closeSnap' = NoSnap
    /\ UNCHANGED <<c, g, clean, ncommit, nlogs, fe>>

\* c.recover(fileName)
Recover ==
    /\ Fresh
    /\ \E r \in {recover(c, file)} :
           /\ c' = r.c
           /\ file' = r.file
           /\ ret' = [Ret("recover", r.err) EXCEPT !.pre = [c |-> c, file |-> file]]
    /\ g' = [NoRecord EXCEPT !.origin = "recover"]
    /\ UNCHANGED <<closeSnap, snaps, clean, ncommit, nlogs, fe>>

Next == Create \/ Commit \/ Close \/ Finalize \/ NewLog \/ Tear \/ Recover

Spec == Init /\ [][Next]_vars

NextOpen == Create \/ CommitOpen \/ Close \/ Finalize
SpecOpen == Init /\ [][NextOpen]_vars

\* the same, on a disk whose writes and fsyncs may fail
CommitIO ==
    \E a \in AppendActions(ncommit + 1) \cup PollardActions, fault \in {"none", "write", "sync"} :
        DoCommit(a, fault, MaxCommits)

NextIO == Create \/ CommitIO \/ Close
SpecIO == Init /\ [][NextIO]_vars

\* ---------------------------------------------------------------- frontend
\* util.Span
Intersect(s, s2) ==
    IF s2.To <= s.From \/ s.To <= s2.From THEN [From |-> 0, To |-> 0]
    ELSE [From |-> Max(s.From, s2.From), To |-> Min(s.To, s2.To)]
SpanSize(s) == IF s.From >= s.To THEN 0 ELSE s.To - s.From
IsEmpty(s) == s.From >= s.To

\* the file numbers 0 .. n-1, oldest first
Numbers(n) == [i \in 1..n |-> i - 1]

\* NewFrontend over the directory dir: the result is [c, file, fe, err].
\* The log files of the directory are sorted by name; without files
\* commit_0000.log is created, else recover runs on logFiles[0].
NewFrontend(dir) ==
    LET k == Len(dir)
        created == [newCommitLog EXCEPT !.w = newWriter(0)]
        Front(files, act) ==
            [open |-> TRUE, dir |-> dir, logFiles |-> files,
             logReaders |-> SubSeq(files, 1, Len(files) - 1), active |-> act]
        Recovered(r) ==
            IF r.err = "finalized"
            THEN [c |-> created, file |-> <<>>, fe |-> Front(Numbers(k + 1), k), err |-> "nil"]
            ELSE IF r.err = "nil"
            THEN [c |-> r.c, file |-> r.file, fe |-> Front(Numbers(k), 0), err |-> "nil"]
            ELSE [c |-> r.c, file |-> r.file, fe |-> Front(Numbers(k), 0), err |-> r.err]
    IN  IF k = 0
        THEN [c |-> created, file |-> <<>>, fe |-> Front(<<0>>, 0), err |-> "nil"]
        ELSE Recovered(recover(newCommitLog, dir[1]))

\* the bytes of the log file with number i, as the frontend fr finds them
\* when its active log file holds f
FileOf(fr, f, i) ==
    IF i = fr.active THEN f
    ELSE IF i < Len(fr.dir) THEN fr.dir[i + 1]
    ELSE <<>>

\* the loop of Frontend.Stat over the log readers, most recent first
RECURSIVE statLoop(_, _, _, _)
statLoop(fr, f, name, logIndex) ==
    IF logIndex < 0 THEN [size |-> 0, err |-> "notexist", panic |-> "none"]
    ELSE LET rd == open(FileOf(fr, f, fr.logReaders[logIndex + 1]))
             e == search(rd.dict, name)
         IN  IF rd.err # "nil" THEN [size |-> 0, err |-> rd.err, panic |-> "none"]
             ELSE IF e.panic # "none" THEN [size |-> 0, err |-> "nil", panic |-> e.panic]
             ELSE IF e.err = "nil" THEN [size |-> e.span.To, err |-> "nil", panic |-> "none"]
             ELSE statLoop(fr, f, name, logIndex - 1)

\* Frontend.Stat: the result is [size, err, panic]
Stat(fr, cl, f, name) ==
    LET sr == streamRange(cl, name)
    IN  IF sr.err = "nil" \/ sr.err = "notexist"
        THEN [size |-> sr.To, err |-> sr.err, panic |-> "none"]
        ELSE statLoop(fr, f, name, Len(fr.logReaders) - 1)

\* bytes written into the array arr from 0-based index lo on
Place(arr, lo, bytes) ==
    [i \in 1..Len(arr) |->
        IF i > lo /\ i <= lo + Len(bytes) THEN bytes[i - lo] ELSE arr[i]]

\* what Frontend.Read returns, and the caller's buffer after the call
ReadResult(n, err, panic, arr) == [n |-> n, err |-> err, panic |-> panic, buf |-> arr]

\* The end of Frontend.Read.  st is [n, dlen, arr, found]: dlen is len(data),
\* arr the array under data.
readDone(st) ==
    IF ~st.found THEN ReadResult(0, "notexist", "none", st.arr)
    ELSE IF st.n # st.dlen THEN ReadResult(0, "head", "none", st.arr)
    ELSE ReadResult(st.n, "nil", "none", st.arr)

\* the loop of Frontend.Read over the log readers, most recent first
RECURSIVE readersLoop(_, _, _, _, _, _)
readersLoop(fr, f, name, dataspan, st, logIndex) ==
    IF ~(st.n < st.dlen /\ logIndex >= 0) THEN readDone(st)
    ELSE LET rd == open(FileOf(fr, f, fr.logReaders[logIndex + 1]))
             e == search(rd.dict, name)
             take == Intersect(dataspan, e.span)
             dlen == IF st.n = 0 /\ e.span.To < dataspan.To
                     THEN e.span.To - dataspan.From ELSE st.dlen
             lo == SpanSize(dataspan) - SpanSize(take) - st.n
             hi == SpanSize(dataspan) - st.n
             got == read(e, FileOf(fr, f, fr.logReaders[logIndex + 1]), take.From, hi - lo)
         IN  IF rd.err # "nil" THEN ReadResult(0, rd.err, "none", st.arr)
             ELSE IF e.panic # "none" THEN ReadResult(0, "nil", e.panic, st.arr)
             ELSE IF e.err # "nil"
             THEN readersLoop(fr, f, name, dataspan, st, logIndex - 1)
             ELSE IF IsEmpty(take)
             THEN IF e.span.To <= dataspan.From THEN ReadResult(0, "nil", "none", st.arr)
                  ELSE readersLoop(fr, f, name, dataspan, [st EXCEPT !.found = TRUE],
                                   logIndex - 1)
             ELSE IF lo < 0 \/ lo > hi \/ hi > Len(st.arr)
             THEN ReadResult(0, "nil", "slice", st.arr)
             ELSE IF got.panic # "none" THEN ReadResult(0, "nil", got.panic, st.arr)
             ELSE readersLoop(fr, f, name, dataspan,
                              [n |-> st.n + SpanSize(take), dlen |-> dlen,
                               arr |-> Place(st.arr, lo, got.data), found |-> TRUE],
                              logIndex - 1)

\* Frontend.Read(name, offset, data) with len(data) = cap(data) = len; the
\* bytes of data before the call are -1
Read(fr, cl, f, name, offset, len) ==
    LET dataspan == [From |-> offset, To |-> offset + len]
        arr == [i \in 1..len |-> -1]
        logspan == streamRange(cl, name)
        take == Intersect(dataspan, [From |-> logspan.From, To |-> logspan.To])
        dlen == IF logspan.To < dataspan.To THEN logspan.To - dataspan.From ELSE len
        lo == SpanSize(dataspan) - SpanSize(take)
        got == readStream(cl, f, name, take.From, dlen - lo)
        last == Len(fr.logReaders) - 1
    IN  IF logspan.err # "nil"
        THEN readersLoop(fr, f, name, dataspan,
                         [n |-> 0, dlen |-> len, arr |-> arr, found |-> FALSE], last)
        ELSE IF IsEmpty(take)
        THEN IF logspan.To <= dataspan.From THEN ReadResult(0, "nil", "none", arr)
             ELSE readersLoop(fr, f, name, dataspan,
                              [n |-> 0, dlen |-> len, arr |-> arr, found |-> TRUE], last)
        ELSE IF lo > dlen THEN ReadResult(0, "nil", "slice", arr)
        ELSE IF got.panic # "none" THEN ReadResult(0, "nil", got.panic, arr)
        ELSE readersLoop(fr, f, name, dataspan,
                         [n |-> SpanSize(take), dlen |-> dlen,
                          arr |-> Place(arr, lo, got.data), found |-> TRUE], last)

\* An earlier process has ended; the log file it wrote is the next file of
\* the directory.
Store ==
    /\ ~fe.open /\ ~c.w.nil
    /\ Len(fe.dir) < MaxDirFiles
    /\ fe' = [fe EXCEPT !.dir = Append(@, file)]
    /\ c' = newCommitLog
    /\ file' = <<>>
    /\ ret' = Ret("new", "nil")
    /\ g' = NoRecord
    /\ closeSnap' = NoSnap
    /\ snaps' = <<>>
    /\ clean' = TRUE
    /\ UNCHANGED <<ncommit, nlogs>>

\* f, err := NewFrontend(pathName)
OpenFrontend ==
    /\ ~fe.open /\ c = newCommitLog /\ ret.op = "new"
    /\ \E r \in {NewFrontend(fe.dir)} :
           /\ c' = r.c
           /\ file' = r.file
           /\ fe' = r.fe
           /\ ret' = Ret("frontend", r.err)
    /\ g' = [NoRecord EXCEPT !.origin = "frontend"]
    /\ clean' = FALSE
    /\ UNCHANGED <<closeSnap, snaps, ncommit, nlogs>>

\* f.Append(name, data, true) and f.Pollard(name, offset): Stat, then commit
FrontendCommit(a, tolerated) ==
    \E stat \in {Stat(fe, c, file, a.streamName)} :
        IF stat.err # "nil" /\ stat.err \notin tolerated
        THEN /\ ret' = [Ret(a.kind, stat.err) EXCEPT !.a = a]
             /\ UNCHANGED <<c, file, g, closeSnap, snaps, clean, ncommit, nlogs, fe>>
        ELSE DoCommit([a EXCEPT !.offset = IF stat.err = "nil" THEN stat.size ELSE @],
                      "none", MaxOpenCommits)

FrontendAppend ==
    /\ fe.open /\ ret.err # "hang"
    /\ \E nm \in Names, L \in 0..MaxData :
           FrontendCommit([kind |-> "append", flags |-> flagAppend, offset |-> 0,
                           streamName |-> nm, data |-> Data(ncommit + 1, L),
                           pollardPos |-> 0], {"permission"})

FrontendPollard ==
    /\ fe.open /\ ret.err # "hang"
    /\ \E nm \in Names, p \in 0..MaxPos :
           FrontendCommit([kind |-> "pollard", flags |-> flagPollard, offset |-> 0,
                           streamName |-> nm, data |-> <<>>, pollardPos |-> p], {})

\* the processes that wrote the log files of the directory
Writers ==
    /\ ~fe.open
    /\ \/ Create
       \/ \E a \in AppendActions(ncommit + 1) \cup PollardActions :
              DoCommit(a, "none", MaxDirCommits)
       \/ Finalize

NextFrontend == Writers \/ Store \/ OpenFrontend \/ FrontendAppend \/ FrontendPollard
SpecFrontend == Init /\ [][NextFrontend]_vars

\* Logs with up to five streams ("a", "aa", "ab", "c", "d"), each commit an
\* append of one byte.
DictNames == Names \cup {<<97, 97>>, <<99>>, <<100>>}

CommitDict ==
    \E nm \in DictNames :
        DoCommit([kind |-> "append", flags |-> flagAppend,
                  offset |-> IF HasStream(c, nm)
                             THEN c.streams[nm].offset + c.streams[nm].length ELSE 0,
                  streamName |-> nm, data |-> Data(ncommit + 1, 1), pollardPos |-> 0],
                 "none", MaxDictCommits)

NextDict == Create \/ CommitDict \/ Finalize
SpecDict == Init /\ [][NextDict]_vars

\* The flags field as callers leave it: the zero value of a new action, or
\* the kind of an append or of a pollard.
CallerFlags == {0, flagAppend, flagPollard}

\* c.commit(a) for an action whose flags field the caller left at any of these
CommitFlags ==
    \E a \in AppendActions(ncommit + 1) \cup PollardActions, fl \in CallerFlags :
        DoCommit([a EXCEPT !.flags = fl], "none", MaxCommits)

NextFlags == Create \/ CommitFlags \/ NewLog \/ Recover
SpecFlags == Init /\ [][NextFlags]_vars

\* the bytes commit(a) writes to the file of an empty log
Encoded(a) == commit([newCommitLog EXCEPT !.w = newWriter(0)], <<>>, a, "none").file

\* a complete append record that names its stream
NamedRecord ==
    Encoded([kind |-> "append", flags |-> flagAppend, offset |-> 0,
             streamName |-> <<97, 98>>, data |-> <<33>>, pollardPos |-> 0])

\* What a damaged disk leaves after the last record: zero bytes, a flag byte
\* of no known kind, or a record that refers to a stream by an ordinal no
\* record has assigned, with or without a complete record after it.
Junk ==
    LET n == Cardinality(Names)
    IN  {<<0>>, <<0, 0>>, <<16>>,
         <<flagAppend, n, 0>>, <<flagPollard, n, 0>>,
         <<flagAppend, n, 0>> \o NamedRecord, <<flagPollard, n, 0>> \o NamedRecord}

\* The file of a process that has ended holds garbage after its last record.
Garbage ==
    /\ c = newCommitLog /\ ret.op = "new"
    /\ clean /\ Len(file) = LastKept.len
    /\ \E j \in Junk : file' = file \o j
    /\ ret' = Ret("garbage", "nil")
    /\ closeSnap' = NoSnap
    /\ UNCHANGED <<c, g, snaps, clean, ncommit, nlogs, fe>>

NextGarbage == Create \/ Commit \/ NewLog \/ Garbage \/ Recover
SpecGarbage == Init /\ [][NextGarbage]_vars

\* ------------------------------------------------------------------ claims
Result(n, data) == [n |-> n, data |-> data, err |-> "nil", panic |-> "none"]

\* C1: in a created log, for a stream that only append commits without error
\* went to, the first with offset field 0, readStream(s, 0, buf) with a buffer
\* of endOffset bytes returns the concatenation of the payloads.
C1_ReadAllAppended ==
    \A s \in Names :
        (g.origin = "create" /\ Known(s) /\ g.base[s] = 0 /\ s \notin g.polled
            /\ ~c.w.closed /\ ~c.finalized)
            => readStream(c, file, s, 0, streamRange(c, s).To)
                   = Result(Len(g.data[s]), g.data[s])

\* the same for streams that hold at least one byte, read while the log is open
C1_NonEmptyOpen ==
    \A s \in Names :
        (g.origin = "create" /\ Known(s) /\ g.base[s] = 0 /\ s \notin g.polled
            /\ Len(g.data[s]) > 0 /\ ~c.w.closed)
            => readStream(c, file, s, 0, streamRange(c, s).To)
                   = Result(Len(g.data[s]), g.data[s])

\* the log is open for append: create or recover returned it, and neither
\* close nor finalize was called
OpenForAppend == ~c.w.nil /\ ~c.w.closed /\ ~c.finalized

\* the last operation was a pollard commit that returned no error
PollardDone == ret.op = "commit" /\ ret.err = "nil" /\ ret.a.kind = "pollard"

\* the caller's end offset of a stream it has committed to
EndOf(s) == g.base[s] + Len(g.data[s])
\* bytes [offset, offset + len) of the stream, from the payloads committed
Bytes(s, offset, len) == Slice(g.data[s], offset - g.base[s], offset - g.base[s] + len)

ReadOffsets == 0..(MaxBase + MaxOpenCommits * MaxData + 1)

\* what C9 says of the state after a pollard commit to p on stream s
PollardReads(s, p) ==
    /\ streamRange(c, s).From = p
    /\ streamRange(c, s).To = EndOf(s)
    /\ \A o \in ReadOffsets, n \in ReadOffsets :
        /\ (p <= o /\ o < EndOf(s) /\ o + n <= EndOf(s))
               => readStream(c, file, s, o, n) = Result(n, Bytes(s, o, n))
        /\ o < p => readStream(c, file, s, o, n).err = "invalid"

\* a pollard position that is an offset of the stream: not below the offset
\* of the stream's first byte
InStream(s, p) == g.base[s] <= p

SameAnswers(c1, f1, c2, f2) ==
    \A s \in Names :
        /\ streamRange(c1, s) = streamRange(c2, s)
        /\ \A o \in ReadOffsets, n \in ReadOffsets :
               readStream(c1, f1, s, o, n) = readStream(c2, f2, s, o, n)

\* recover has just run on the file as a successful close left it
RecoveredAfterClose ==
    ret.op = "recover" /\ closeSnap.valid /\ ret.pre.file = closeSnap.file

\* C2: when recover re-opens the file a successful close left, it returns no
\* error and every stream has the streamRange and the readStream bytes it had
\* just before the close.
C2_CloseRecover ==
    RecoveredAfterClose
        => /\ ret.err = "nil"
           /\ SameAnswers(c, file, closeSnap.c, closeSnap.file)

\* the same, for files no commit has written to after a torn tail was cut
C2_CloseRecoverClean == clean => C2_CloseRecover

\* recover has just run on a file of committed records whose end lay inside
\* a record
RecoveredTorn == ret.op = "recover" /\ clean /\ Len(ret.pre.file) > LastKept.len

AppendedAfterRecover ==
    /\ g.origin = "recover" /\ OpenForAppend
    /\ ret.op = "commit" /\ ret.err = "nil" /\ ret.a.kind = "append"
    /\ Len(ret.a.data) > 0
    /\ LET r == streamRange(c, ret.a.streamName)
       IN  r.From <= r.To - Len(ret.a.data)

\* C4: on a log that recover opened, readStream of the last bytes of a
\* stream returns the payload of the append that was just committed to it.
C4_NextAppendReadable ==
    AppendedAfterRecover
        => LET s == ret.a.streamName
               L == Len(ret.a.data)
           IN  readStream(c, file, s, streamRange(c, s).To - L, L) = Result(L, ret.a.data)

\* the same, for files no commit has written to after a torn tail was cut
C4_NextAppendReadableClean == (clean \/ ret.op # "commit") => C4_NextAppendReadable

\* finalize has just sealed a log none of whose streams was pollarded to a
\* position below its first offset
Sealed ==
    /\ ret.op = "finalize" /\ ret.err = "nil"
    /\ \A s \in DOMAIN ret.pre.c.streams :
           ret.pre.c.streams[s].offset <= ret.pre.c.streams[s].keepOffset

\* the sealed reader's entry of stream s agrees with the open log cl on file f
SealedAgrees(s, cl, f) ==
    LET rd == open(file)
        e == search(rd.dict, s)
        sr == streamRange(cl, s)
    IN  /\ rd.err = "nil"
        /\ e.err = "nil" /\ e.panic = "none"
        /\ e.span = [From |-> sr.From, To |-> sr.To]
        /\ \A o \in ReadOffsets, n \in ReadOffsets :
               LET was == readStream(cl, f, s, o, n)
               IN  (sr.From <= o /\ o + n <= sr.To /\ was.panic = "none")
                       => read(e, file, o, n) = [data |-> was.data, err |-> "nil",
                                                 panic |-> "none"]

C6_StaysFinalized ==
    [][(c.finalized /\ nlogs' = nlogs)
          => /\ ret'.op \in {"commit", "finalize", "close"}
             /\ ret'.err = "finalized"
             /\ c'.finalized
             /\ Core(c') = Core(c)
             /\ file' = file]_vars

\* a commit was refused on a log that recover found sealed
C6_Witness ==
    /\ c.finalized /\ g.origin = "recover" /\ DOMAIN c.streams # {}
    /\ ret.op = "commit" /\ ret.err = "finalized"

\* C7, the error half: a commit that returns an error leaves the stream map,
\* the FAT and the size counter as they were before the call.
C7_ErrorLeavesState ==
    [][(ncommit' = ncommit + 1 /\ ret'.err # "nil") => Core(c') = Core(c)]_vars

\* C8: a commit returns no error only if its flush and its fsync returned
\* no error.
C8_SuccessIsSynced ==
    (ret.op = "commit" /\ ret.err = "nil") => ret.sync = "nil"

\* a name no commit uses
Absent == <<98>>

\* what C10 says readStream(s, o, buf of n bytes) returns on the log c
Answer(s, o, n) ==
    IF ~HasStream(c, s) THEN "notexist"
    ELSE IF o < streamRange(c, s).From \/ o + n > streamRange(c, s).To THEN "invalid"
    ELSE "nil"

\* C10: on an open log readStream returns NotFound for a stream not in the
\* log, InvalidArgument for a range outside [keepOffset, endOffset], and for
\* every other request n = len(buf) bytes and no error, without failing the
\* FAT walk.
C10_ReadStreamContract ==
    OpenForAppend
        => \A s \in Names \cup {Absent}, o \in ReadOffsets, n \in ReadOffsets :
               LET r == readStream(c, file, s, o, n)
               IN  /\ r.panic = "none"
                   /\ r.err = Answer(s, o, n)
                   /\ r.n = IF r.err = "nil" THEN n ELSE 0

\* the same without the requests for no bytes at the end of the stream
C10_InsideReads ==
    (OpenForAppend /\ g.origin = "create")
        => \A s \in Names \cup {Absent}, o \in ReadOffsets, n \in ReadOffsets :
               LET r == readStream(c, file, s, o, n)
               IN  (HasStream(c, s) /\ o = streamRange(c, s).To /\ n = 0)
                   \/ (HasStream(c, s) /\ c.streams[s].keepOffset < c.streams[s].offset)
                   \/ (r.panic = "none" /\ r.err = Answer(s, o, n)
                          /\ r.n = IF r.err = "nil" THEN n ELSE 0)


\* C11: in every state that commits and recover reach, every stream has
\* baseOffset <= keepOffset <= endOffset, whatever positions the committed
\* pollard actions carry.
C11_KeepOffsetInRange ==
    \A s \in DOMAIN c.streams :
        /\ c.streams[s].offset <= c.streams[s].keepOffset
        /\ c.streams[s].keepOffset <= c.streams[s].offset + c.streams[s].length


\* recover has just run on a file of committed records followed by a byte
\* whose kind is neither append, pollard nor dict
RecoveredGarbage ==
    /\ ret.op = "recover" /\ clean /\ Len(ret.pre.file) > LastKept.len
    /\ Kind(ret.pre.file[LastKept.len + 1]) \notin {flagAppend, flagPollard, flagDict}

\* C12: when the flag byte after the last valid record has an unknown kind,
\* recover returns no error, the log is writable and holds the state of the
\* valid prefix, and the file is truncated to that prefix.
C12_GarbageHalts ==
    RecoveredGarbage
        => /\ ret.err = "nil"
           /\ OpenForAppend
           /\ Core(c) = LastKept.core
           /\ file = Slice(ret.pre.file, 0, LastKept.len)

\* the reader of recover after the records that gave the state core
ReaderAfter(core) ==
    [pos |-> core.size,
     names |-> [i \in 1..Cardinality(DOMAIN core.streams) |->
                   CHOOSE n \in DOMAIN core.streams : core.streams[n].number = i - 1]]

\* what parsing the record after the last valid record of f returns
NextParse(f) ==
    LET r == ReaderAfter(LastKept.core)
        k == Kind(f[r.pos + 1])
    IN  IF k = flagAppend THEN appendRead(f, r).err
        ELSE IF k = flagPollard THEN pollardRead(f, r).err
        ELSE "nil"

\* recover has just run on a file of committed records followed by an append
\* or pollard record that fails to parse
RecoveredUnparsable ==
    /\ ret.op = "recover" /\ clean /\ Len(ret.pre.file) > LastKept.len
    /\ NextParse(ret.pre.file) # "nil"

\* C13: after recover of a file whose records are followed by an append or
\* pollard record that fails to parse, the stream map, the FAT and size are
\* those of the records before it: nothing after it was replayed.
C13_StopsAtFirstFailure ==
    RecoveredUnparsable => Core(c) = LastKept.core


\* where the dict record of a sealed file starts, from the trailer
DictStart(f) == Len(f) - 16 - GetLE(Slice(f, Len(f) - 16, Len(f)), 0, 8)

\* recover has just run on a file that ends with a dictionary and its trailer
RecoveredSealed == ret.op = "recover" /\ open(ret.pre.file).err = "nil"

\* the log that recover builds from the records before the dict alone
BeforeDict(f) == recover(newCommitLog, Slice(f, 0, DictStart(f)))

\* C14: recover on a sealed file returns LogFinalized with the log marked
\* finalized, leaves the file as it was, has counted the bytes before the
\* dict flag and no more, and holds the stream map and FAT of the records
\* before the dict.
C14_StopsAtDict ==
    RecoveredSealed
        => /\ ret.err = "finalized"
           /\ c.finalized
           /\ file = ret.pre.file
           /\ c.size = DictStart(file)
           /\ Core(c) = Core(BeforeDict(file).c)

\* the same, for sealed files whose records before the dict replay to the
\* dict flag
C14_StopsAtDictClean ==
    (RecoveredSealed /\ BeforeDict(ret.pre.file).err = "nil"
        /\ BeforeDict(ret.pre.file).c.size = DictStart(ret.pre.file))
        => C14_StopsAtDict


\* finalize has just sealed the log
JustSealed == ret.op = "finalize" /\ ret.err = "nil"

\* the names searched for: the stream names, and names below, between and
\* above them that no commit uses
Probes == Names \cup {Absent, <<96>>, <<97, 97>>, <<97, 98, 99>>}

\* what search(name) returns on the sealed file
Found(name) == search(open(file).dict, name)

\* C15: on every sealed log, search(name) returns an entry when name is a
\* stream of the log and NotFound when it is not, and never reads outside
\* the dictionary.
C15_SearchFinds ==
    JustSealed
        => \A name \in Probes :
               /\ Found(name).panic = "none"
               /\ Found(name).err = IF name \in DOMAIN ret.pre.c.streams
                                    THEN "nil" ELSE "notexist"

\* the same, for sealed logs that hold at least one stream
C15_SearchFindsNonEmpty ==
    DOMAIN ret.pre.c.streams # {} => C15_SearchFinds


\* the name stored in the dictionary node at pos
NodeName(dict, pos) == Slice(dict, pos + 8, findZero(dict, pos + 8))

\* the names met by an in-order walk from the node at pos, following the
\* left and right child offsets, 0 meaning no child; depth bounds the walk
RECURSIVE InOrder(_, _, _)
InOrder(dict, pos, depth) ==
    IF pos = 0 \/ depth = 0 \/ pos + 8 > Len(dict) THEN <<>>
    ELSE InOrder(dict, GetLE(dict, pos, 4), depth - 1)
             \o <<NodeName(dict, pos)>>
             \o InOrder(dict, GetLE(dict, pos + 4, 4), depth - 1)

\* the in-order walk of the sealed file's dictionary from its root, the node
\* after the flag byte
Walk == InOrder(open(file).dict, 1, Cardinality(DOMAIN ret.pre.c.streams) + 1)

\* C16: the in-order traversal of the dictionary finalize wrote visits every
\* stream of the log exactly once, in strictly increasing byte-wise order
\* of names.
C16_DictIsSearchTree ==
    JustSealed
        => /\ Len(Walk) = Cardinality(DOMAIN ret.pre.c.streams)
           /\ {Walk[i] : i \in 1..Len(Walk)} = DOMAIN ret.pre.c.streams
           /\ \A i \in 1..(Len(Walk) - 1) : LexLess(Walk[i], Walk[i + 1])

\* a dictionary of five streams whose root has a left and a right subtree of
\* two nodes each
C16_Witness ==
    /\ JustSealed
    /\ Walk = <<<<97>>, <<97, 97>>, <<97, 98>>, <<99>>, <<100>>>>
    /\ NodeName(open(file).dict, 1) = <<97, 98>>
    /\ GetLE(open(file).dict, 1, 4) > 1
    /\ GetLE(open(file).dict, 5, 4) > 1


\* the pool indices on the FAT chain of stream name, from firstFatIndex along
\* next until an entry whose next is 0
RECURSIVE ChainFrom(_, _, _)
ChainFrom(fat, i, fuel) ==
    IF i >= Len(fat) \/ fuel = 0 THEN <<>>
    ELSE IF fat[i + 1].next = 0 THEN <<i>>
    ELSE <<i>> \o ChainFrom(fat, fat[i + 1].next, fuel - 1)

ChainOf(cl, name) == ChainFrom(cl.fat, cl.streams[name].firstFatIndex, Len(cl.fat))

\* the sum of the length fields of a sequence of extents or pieces
RECURSIVE SumLength(_)
SumLength(es) == IF Len(es) = 0 THEN 0 ELSE es[1].length + SumLength(Tail(es))

\* The live pieces of a chain whose first extent starts at stream offset
\* foffset: extents that end at or below keep are left out, the extent that
\* straddles keep loses its first keep - foffset bytes.
RECURSIVE LivePieces(_, _, _, _)
LivePieces(fat, chain, foffset, keep) ==
    IF Len(chain) = 0 THEN <<>>
    ELSE LET e == fat[chain[1] + 1]
             cut == Max(0, keep - foffset)
         IN  (IF e.length > 0 /\ foffset + e.length > keep
              THEN <<[pos |-> e.pos + cut, length |-> e.length - cut]>> ELSE <<>>)
                 \o LivePieces(fat, Tail(chain), foffset + e.length, keep)

\* every stream of the log cl has baseOffset <= keepOffset <= endOffset
KeepInRange(cl) ==
    \A s \in DOMAIN cl.streams :
        /\ cl.streams[s].offset <= cl.streams[s].keepOffset
        /\ cl.streams[s].keepOffset <= cl.streams[s].offset + cl.streams[s].length

\* the bytes of the dictionary node of a stream with the given pieces
NodeSize(name, pieces) == 8 + Len(name) + 1 + 18 + 8 * Len(pieces)

RECURSIVE SumNodeSizes(_)
SumNodeSizes(S) ==
    IF S = {} THEN 0
    ELSE LET n == CHOOSE x \in S : TRUE
         IN  NodeSize(n, Found(n).pieces) + SumNodeSizes(S \ {n})

\* what C17 says of the dictionary entry of stream s of the log cl
PiecesCover(cl, s) ==
    LET st == cl.streams[s]
        e == Found(s)
    IN  /\ e.panic = "none" /\ e.err = "nil"
        /\ e.pieces = LivePieces(cl.fat, ChainOf(cl, s), st.offset, st.keepOffset)
        /\ \A i \in 1..Len(e.pieces) : e.pieces[i].length > 0
        /\ SumLength(e.pieces) = st.offset + st.length - st.keepOffset

\* C17: in the dictionary of a sealed log whose streams have their
\* keepOffset in range, the piece list of every stream is the live part of
\* its extents (extents below keepOffset left out, the straddling one cut),
\* no piece is empty, the lengths sum to endOffset - keepOffset, and the
\* piece counts account for every byte of the dictionary.
C17_PiecesCoverLiveRange ==
    (JustSealed /\ KeepInRange(ret.pre.c))
        => /\ \A s \in DOMAIN ret.pre.c.streams : PiecesCover(ret.pre.c, s)
           /\ Len(open(file).dict) = 1 + SumNodeSizes(DOMAIN ret.pre.c.streams)

\* the same, for logs in which every stream has an extent of its own
C17_PiecesCoverOwnExtents ==
    (\A s \in DOMAIN ret.pre.c.streams :
         SumLength([i \in 1..Len(ChainOf(ret.pre.c, s)) |->
                       ret.pre.c.fat[ChainOf(ret.pre.c, s)[i] + 1]])
             = ret.pre.c.streams[s].length)
        => C17_PiecesCoverLiveRange


\* the extents on the FAT chain of stream name
ExtentsOf(cl, name) ==
    [i \in 1..Len(ChainOf(cl, name)) |-> cl.fat[ChainOf(cl, name)[i] + 1]]

\* The payload regions of the append records of file f, in file order, found
\* by parsing the records from reader state r on: the payload follows the
\* flag, the stream reference and dataLen.
RECURSIVE PayloadRegions(_, _)
PayloadRegions(f, r) ==
    IF r.pos >= Len(f) THEN <<>>
    ELSE LET k == Kind(f[r.pos + 1])
             ap == appendRead(f, r)
             po == pollardRead(f, r)
         IN  IF k = flagAppend /\ ap.err = "nil"
             THEN <<[pos |-> ap.r.pos - Len(ap.a.data), length |-> Len(ap.a.data)]>>
                      \o PayloadRegions(f, ap.r)
             ELSE IF k = flagPollard /\ po.err = "nil" THEN PayloadRegions(f, po.r)
             ELSE <<>>

\* a commit or recover has just returned an open log
OpenAfterCommitOrRecover ==
    ret.op \in {"commit", "recover"} /\ ret.err = "nil" /\ OpenForAppend

\* C18: in an open log that a commit or recover has returned, the extents on
\* every stream's FAT chain have lengths summing to the stream's length, and
\* the FAT entries are, in order, the payload regions of the append records
\* of the file, each inside the bytes counted by size.
C18_ExtentsArePayloads ==
    OpenAfterCommitOrRecover
        => /\ \A s \in DOMAIN c.streams :
                  SumLength(ExtentsOf(c, s)) = c.streams[s].length
           /\ [i \in 1..Len(c.fat) |-> [pos |-> c.fat[i].pos, length |-> c.fat[i].length]]
                  = PayloadRegions(file, [pos |-> 0, names |-> <<>>])
           /\ \A i \in 1..Len(c.fat) : c.fat[i].pos + c.fat[i].length <= c.size

\* a stream without a byte whose firstFatIndex is the entry of an extent
\* that holds bytes
Foreign(cl, s) ==
    /\ cl.streams[s].length = 0
    /\ cl.streams[s].firstFatIndex < Len(cl.fat)
    /\ cl.fat[cl.streams[s].firstFatIndex + 1].length > 0

\* the same, for logs in which no stream without bytes points at another's
\* extent
C18_ExtentsArePayloadsOwn ==
    (\A s \in DOMAIN c.streams : ~Foreign(c, s)) => C18_ExtentsArePayloads

\* the same, for such logs on files no commit has written to after a torn
\* tail was cut
C18_ExtentsArePayloadsClean ==
    (clean /\ \A s \in DOMAIN c.streams : ~Foreign(c, s)) => C18_ExtentsArePayloads


\* the elements of a sequence
Range(q) == {q[i] : i \in 1..Len(q)}

\* the file positions of a sequence of extents or pieces
BytesOf(es) == UNION {(es[i].pos + 1)..(es[i].pos + es[i].length) : i \in 1..Len(es)}

\* what C19 says of the streams s and t of the log cl
Disjoint(cl, s, t) ==
    /\ Range(ChainOf(cl, s)) \cap Range(ChainOf(cl, t)) = {}
    /\ BytesOf(ExtentsOf(cl, s)) \cap BytesOf(ExtentsOf(cl, t)) = {}

\* C19: the FAT chains of two different streams share no entry and their
\* extents share no byte of the file; in the dictionary of a sealed log the
\* pieces of two different streams share no byte.
C19_StreamsDisjoint ==
    /\ \A s \in DOMAIN c.streams, t \in DOMAIN c.streams : s # t => Disjoint(c, s, t)
    /\ JustSealed
           => \A s \in DOMAIN c.streams, t \in DOMAIN c.streams :
                  s # t => BytesOf(Found(s).pieces) \cap BytesOf(Found(t).pieces) = {}

\* the same, for pairs of streams that both hold at least one byte
C19_StreamsWithBytesDisjoint ==
    /\ \A s \in DOMAIN c.streams, t \in DOMAIN c.streams :
           (s # t /\ c.streams[s].length > 0 /\ c.streams[t].length > 0)
               => Disjoint(c, s, t)
    /\ JustSealed
           => \A s \in DOMAIN c.streams, t \in DOMAIN c.streams :
                  (s # t /\ c.streams[s].length > 0 /\ c.streams[t].length > 0)
                      => BytesOf(Found(s).pieces) \cap BytesOf(Found(t).pieces) = {}


\* C20: when the file handle of the log is closed (after close or finalize),
\* a readStream of at least one byte inside [keepOffset, endOffset], whose
\* positioned file read therefore fails, returns an error.
C20_ReadErrorSurfaces ==
    c.w.closed
        => \A s \in DOMAIN c.streams, o \in ReadOffsets, n \in ReadOffsets :
               LET r == readStream(c, file, s, o, n)
               IN  (n > 0 /\ Answer(s, o, n) = "nil" /\ r.panic = "none")
                       => r.err # "nil"


\* dictByteCount, the first 8 bytes of the trailer of the sealed file
DictByteCount == GetLE(file, Len(file) - 16, 8)

\* the bytes finalize wrote between the writer's position and the trailer:
\* the dict flag byte and the dictionary body
DictRecordLen == Len(file) - 16 - ret.pre.c.w.pos

\* C21 as stated: dictByteCount is the number of bytes of the dictionary
\* body, without the dict flag byte and without the 16-byte tail.
C21_CountsBodyOnly ==
    JustSealed => DictByteCount = DictRecordLen - 1

\* C21 amended: dictByteCount is the number of bytes of the dict record, the
\* flag byte and the dictionary body, without the 16-byte tail; the byte
\* that many bytes before the tail is the dict flag.
C21_CountsFlagAndBody ==
    JustSealed
        => /\ DictByteCount = DictRecordLen
           /\ file[Len(file) - 16 - DictByteCount + 1] = flagDict
           /\ open(file).dict = Slice(file, ret.pre.c.w.pos, Len(file) - 16)

\* a sealed log with two streams whose trailer counts more than the flag
C21_Witness ==
    /\ JustSealed
    /\ Cardinality(DOMAIN ret.pre.c.streams) = 2
    /\ DictByteCount = DictRecordLen /\ DictByteCount > 1


\* the last call on the frontend was Append
Appended == fe.open /\ ret.op \in {"append", "commit"} /\ ret.a.flags = flagAppend

\* C22: on a frontend over a directory without log files, every Append
\* returns no error, also the one that creates its stream, and after it Stat
\* of the stream returns no error and as Size the number of bytes the Appends
\* to the stream have written.
C22_AppendCreatesStream ==
    (Appended /\ Len(fe.dir) = 0)
        => /\ ret.err = "nil"
           /\ Stat(fe, c, file, ret.a.streamName).err = "nil"
           /\ Stat(fe, c, file, ret.a.streamName).size = Len(g.data[ret.a.streamName])

\* The same for the streams the recovered log of the frontend holds: every
\* Append to such a stream returns no error and advances Size by the length
\* of its payload.
C22_AppendExisting ==
    (Appended /\ ret.op = "commit" /\ Known(ret.a.streamName))
        => /\ ret.err = "nil"
           /\ Stat(fe, c, file, ret.a.streamName).err = "nil"
           /\ Stat(fe, c, file, ret.a.streamName).size
                  = g.base[ret.a.streamName] + Len(g.data[ret.a.streamName])

\* two Appends of at least one byte have reached a stream of the frontend
C22_Witness ==
    /\ Appended /\ ret.op = "commit" /\ ret.err = "nil"
    /\ Len(ret.a.data) > 0
    /\ Len(g.data[ret.a.streamName]) > Len(ret.a.data)


\* the bytes of file f that a sequence of extents covers, in order
RECURSIVE ExtentBytes(_, _)
ExtentBytes(f, es) ==
    IF Len(es) = 0 THEN <<>>
    ELSE Slice(f, es[1].pos, es[1].pos + es[1].length) \o ExtentBytes(f, Tail(es))

\* the bytes [from, to) of stream name of the active log
StreamBytes(name, from, to) ==
    SubSeq(ExtentBytes(file, ExtentsOf(c, name)),
           from - c.streams[name].offset + 1, to - c.streams[name].offset)

\* the buffer lengths of the Read calls
MaxReadLen == 3
ReadLens == 0..MaxReadLen

\* a frontend whose calls return
Serving == fe.open /\ ret.err \notin {"hang", "panic"}

\* what C23 says of Read(name, o, buf) with len(buf) = len on a stream of
\* the active log with range sr
ReadsTo(name, o, len, sr) ==
    LET r == Read(fe, c, file, name, o, len)
        n == Min(len, sr.To - o)
    IN  /\ r.panic = "none" /\ r.err = "nil"
        /\ r.n = n
        /\ SubSeq(r.buf, 1, n) = StreamBytes(name, o, o + n)

\* C23: Read on a stream of the active log, from an offset of the stream on,
\* returns no error and len(buf) bytes when the range ends inside the stream,
\* and else the end - offset bytes up to the end of the stream; the bytes
\* are the stream's and start at buf[0].
C23_ReadLength ==
    Serving
        => \A name \in DOMAIN c.streams, len \in ReadLens :
               \A o \in Max(c.streams[name].offset, c.streams[name].keepOffset)
                            ..(c.streams[name].offset + c.streams[name].length) :
                   ReadsTo(name, o, len, streamRange(c, name))

\* The same for the ranges that end inside the stream, on a frontend that
\* has no log but the active one.
C23_ReadInside ==
    (Serving /\ Len(fe.logReaders) = 0)
        => \A name \in DOMAIN c.streams, len \in ReadLens :
               \A o \in Max(c.streams[name].offset, c.streams[name].keepOffset)
                            ..(c.streams[name].offset + c.streams[name].length) :
                   o + len <= c.streams[name].offset + c.streams[name].length
                       => ReadsTo(name, o, len, streamRange(c, name))


\* NewFrontend has just returned a frontend
Opened == fe.open /\ ret.op = "frontend" /\ ret.err = "nil"

\* the log file with bytes f is sealed
IsSealed(f) == open(f).err = "nil"

\* what C24 says of the frontend over the directory dir
LatestIsTarget(dir) ==
    LET k == Len(dir)
    IN  IF k = 0
        THEN fe.active = 0 /\ file = <<>> /\ fe.logReaders = <<>>
        ELSE IF IsSealed(dir[k])
        THEN /\ fe.active = k /\ file = <<>> /\ Core(c) = Core(newCommitLog)
             /\ fe.logReaders = Numbers(k)
        ELSE /\ fe.active = k - 1
             /\ Core(c) = Core(recover(newCommitLog, dir[k]).c)
             /\ file = recover(newCommitLog, dir[k]).file
             /\ fe.logReaders = Numbers(k - 1)

\* C24: the frontend NewFrontend returns writes to the last log file of the
\* directory when that file is unsealed, with the state recover rebuilds
\* from it, and to a new, empty log file with the next number when it is
\* sealed; its readers are the other log files, and only those, oldest first.
C24_LatestIsTarget == Opened => LatestIsTarget(fe.dir)

\* the same for the directories with at most one log file
C24_LatestOfOne == (Opened /\ Len(fe.dir) <= 1) => LatestIsTarget(fe.dir)


\* The logs of the frontend, newest first: the active log, then the files of
\* the readers from the last to the first.  Each is [cl, f]: the bytes f of
\* the file and the streams and extents its records describe.
LogsNewestFirst ==
    <<[cl |-> c, f |-> file]>>
        \o [i \in 1..Len(fe.logReaders) |->
               LET f == FileOf(fe, file, fe.logReaders[Len(fe.logReaders) + 1 - i])
               IN  [cl |-> recover(newCommitLog, f).c, f |-> f]]

\* the log lg holds byte x of stream name
Holds(lg, name, x) ==
    /\ HasStream(lg.cl, name)
    /\ x >= lg.cl.streams[name].offset /\ x >= lg.cl.streams[name].keepOffset
    /\ x < lg.cl.streams[name].offset + lg.cl.streams[name].length

\* byte x of stream name in the log lg
ByteIn(lg, name, x) ==
    ExtentBytes(lg.f, ExtentsOf(lg.cl, name))[x - lg.cl.streams[name].offset + 1]

\* byte x of stream name in the newest log that holds it
NewestByte(name, x) ==
    LET i == CHOOSE j \in 1..Len(LogsNewestFirst) :
                 /\ Holds(LogsNewestFirst[j], name, x)
                 /\ \A h \in 1..(j - 1) : ~Holds(LogsNewestFirst[h], name, x)
    IN  ByteIn(LogsNewestFirst[i], name, x)

Held(name, x) == \E j \in 1..Len(LogsNewestFirst) : Holds(LogsNewestFirst[j], name, x)

\* the offsets of the Read calls on the frontend
FrontOffsets == 0..(MaxBase + MaxData)

\* what C25 says of Read(name, o, buf) with len(buf) = len
FansOut(name, o, len) ==
    LET r == Read(fe, c, file, name, o, len)
    IN  /\ (\A x \in o..(o + len - 1) : Held(name, x))
            => /\ r.panic = "none" /\ r.err = "nil" /\ r.n = len
               /\ \A i \in 1..len : r.buf[i] = NewestByte(name, o + i - 1)
        /\ (~Held(name, o) /\ \E x \in o..(o + len - 1) : Held(name, x))
            => r.panic = "none" /\ r.err # "nil"

\* C25: a Read of a range all of whose bytes are in the active log or in a
\* sealed log returns no error and exactly these bytes in offset order, each
\* from the newest log that holds it; a Read of a range whose first byte is
\* in no log, while later bytes are, returns an error.
C25_ReadFansOut ==
    Serving => \A name \in Names, o \in FrontOffsets, len \in 1..MaxReadLen :
                   FansOut(name, o, len)


\* no stream of a log of the frontend was pollarded to a position outside
\* the offsets it holds
KeepsInside ==
    \A j \in 1..Len(LogsNewestFirst) :
        \A s \in DOMAIN LogsNewestFirst[j].cl.streams :
            LET st == LogsNewestFirst[j].cl.streams[s]
            IN  st.offset <= st.keepOffset /\ st.keepOffset <= st.offset + st.length

C25_ReadFansOutKept ==
    (Serving /\ KeepsInside)
        => \A name \in Names, o \in FrontOffsets, len \in 1..MaxReadLen :
               FansOut(name, o, len)


\* every reader of the frontend is over a sealed log file
ReadersSealed ==
    \A i \in 1..Len(fe.logReaders) : IsSealed(FileOf(fe, file, fe.logReaders[i]))

C25_ReadFansOutSealed ==
    (Serving /\ KeepsInside /\ ReadersSealed)
        => \A name \in Names, o \in FrontOffsets, len \in 1..MaxReadLen :
               FansOut(name, o, len)


\* no log file under a reader was sealed without streams
ReadersHaveStreams ==
    \A j \in 2..Len(LogsNewestFirst) : DOMAIN LogsNewestFirst[j].cl.streams # {}

C25_ReadFansOutOwn ==
    (Serving /\ KeepsInside /\ ReadersSealed /\ ReadersHaveStreams)
        => \A name \in Names, o \in FrontOffsets, len \in 1..MaxReadLen :
               FansOut(name, o, len)


\* every log that holds stream name starts it where the older logs end it
Continues(name) ==
    \A j \in 1..Len(LogsNewestFirst), h \in 1..Len(LogsNewestFirst) :
        (j < h /\ HasStream(LogsNewestFirst[j].cl, name)
               /\ HasStream(LogsNewestFirst[h].cl, name))
            => LogsNewestFirst[j].cl.streams[name].offset
                   >= LogsNewestFirst[h].cl.streams[name].offset
                          + LogsNewestFirst[h].cl.streams[name].length

\* The first half of C25 alone, for the frontends whose readers are over
\* sealed files with streams and whose pollards are in range, and for the
\* streams that every log continues: a Read of a range all of whose bytes
\* are held returns exactly these bytes.
C25_ReadHeld ==
    (Serving /\ KeepsInside /\ ReadersSealed /\ ReadersHaveStreams)
        => \A name \in Names, o \in FrontOffsets, len \in 1..MaxReadLen :
               (Continues(name) /\ \A x \in o..(o + len - 1) : Held(name, x))
                   => LET r == Read(fe, c, file, name, o, len)
                      IN  /\ r.panic = "none" /\ r.err = "nil" /\ r.n = len
                          /\ \A i \in 1..len : r.buf[i] = NewestByte(name, o + i - 1)


\* the logs of the frontend that hold stream name, as indices of LogsNewestFirst
Holders(name) == {j \in 1..Len(LogsNewestFirst) : HasStream(LogsNewestFirst[j].cl, name)}

\* the end offset of stream name in the newest log that holds it
NewestEnd(name) ==
    LET j == CHOOSE h \in Holders(name) : \A k \in Holders(name) : h <= k
        s == LogsNewestFirst[j].cl.streams[name]
    IN  s.offset + s.length

\* what C26 says of Stat(name)
StatFinds(name) ==
    LET st == Stat(fe, c, file, name)
    IN  /\ st.panic = "none"
        /\ IF Holders(name) = {} THEN st.err = "notexist"
           ELSE st.err = "nil" /\ st.size = NewestEnd(name)

\* C26: Stat of a stream that the active log or a sealed log holds returns no
\* error and the end offset of the stream in the newest log that holds it, the
\* active log first; Stat returns NotExist only when no log holds the stream.
C26_StatSearchesAllLogs == Serving => \A name \in Names : StatFinds(name)

\* the same for the streams that the active log holds or no log holds
C26_StatActiveOrNone ==
    Serving => \A name \in Names :
                   (HasStream(c, name) \/ Holders(name) = {}) => StatFinds(name)

\* a stream that only a sealed log under a reader holds
C26_Witness ==
    /\ Serving /\ ReadersSealed
    /\ \E name \in Names : Holders(name) # {} /\ ~HasStream(c, name)


\* The name table of the reader that recover runs over the file f: the names
\* written inline in the records of f, in file order.
NameTable(f) == recoverLoop(newCommitLog, f, [pos |-> 0, names |-> <<>>], Len(f)).r.names

\* a log that create or recover has returned, open for commits
OpenLog == ~c.w.nil /\ ~c.w.closed /\ ~c.finalized /\ ret.err \notin {"hang", "panic"}

\* The ordinals of the n streams of the log are 0 .. n-1, the records of the
\* file write n names inline, and the name written i-th is the name of the
\* stream with ordinal i-1.
OrdinalsMatchNames ==
    LET n == Cardinality(DOMAIN c.streams)
    IN  /\ {c.streams[s].number : s \in DOMAIN c.streams} = 0..(n - 1)
        /\ Len(NameTable(file)) = n
        /\ \A s \in DOMAIN c.streams : NameTable(file)[c.streams[s].number + 1] = s

\* a commit leaves the ordinal of every stream the log had as it was
OrdinalsKept ==
    ret'.op = "commit"
        => \A s \in DOMAIN c.streams :
               HasStream(c', s) /\ c'.streams[s].number = c.streams[s].number

\* C27: in every state of an open log with n streams the ordinals are
\* 0 .. n-1 in the order in which the names were first written, no commit
\* changes an ordinal, each name is written inline in exactly one record, and
\* the name table of recover maps every ordinal to the name the writer gave it.
C27_OrdinalsAndNames == [](OpenLog => OrdinalsMatchNames) /\ [][OrdinalsKept]_vars

\* the same for the logs whose file holds the committed records and nothing
\* else
C27_OrdinalsAndNamesClean ==
    [](OpenLog /\ clean => OrdinalsMatchNames) /\ [][OrdinalsKept]_vars


\* where the record of the last commit starts in the file
RecordStart == IF Len(snaps) >= 2 THEN snaps[Len(snaps) - 1].len ELSE 0

\* the last commit returned no error and its record is the last of the file
Committed ==
    /\ ret.op = "commit" /\ ret.err = "nil" /\ ~c.w.closed
    /\ clean /\ Len(snaps) >= 1 /\ LastKept.len = Len(file)
    /\ RecordStart < Len(file)

\* C28: the flag byte of the record of a commit that returned no error,
\* masked with 0xfc, is 4 for an append action and 8 for a pollard action,
\* whatever the flags field of the action held.
C28_KindWritten ==
    Committed
        => Kind(file[RecordStart + 1])
               = IF ret.a.kind = "append" THEN flagAppend ELSE flagPollard

\* the same for the actions whose flags field holds the kind of the action
C28_KindWrittenAsSet ==
    (Committed /\ ret.a.flags = IF ret.a.kind = "append" THEN flagAppend ELSE flagPollard)
        => Kind(file[RecordStart + 1]) = ret.a.flags


\* the last element of a non-empty sequence
Last(q) == q[Len(q)]

\* C29: for every stream that holds at least one byte, the entries reached
\* from firstFatIndex by following next are all different, the walk ends at
\* lastFatIndex, and that entry's next is 0; every next that is not 0 points
\* to an entry pushed later, so that no next links to index 0 and entry 0 is
\* on a chain only as its first entry.
C29_FatChains ==
    /\ \A i \in 1..Len(c.fat) :
           c.fat[i].next # 0 => (c.fat[i].next > i - 1 /\ c.fat[i].next < Len(c.fat))
    /\ \A s \in DOMAIN c.streams :
           c.streams[s].length > 0
               => /\ c.streams[s].firstFatIndex < Len(c.fat)
                  /\ Cardinality(Range(ChainOf(c, s))) = Len(ChainOf(c, s))
                  /\ Last(ChainOf(c, s)) = c.streams[s].lastFatIndex
                  /\ c.fat[c.streams[s].lastFatIndex + 1].next = 0
                  /\ \A k \in 2..Len(ChainOf(c, s)) : ChainOf(c, s)[k] # 0

\* a stream whose chain starts at entry 0 and has a second entry
C29_Witness ==
    \E s \in DOMAIN c.streams :
        /\ c.streams[s].length > 0
        /\ c.streams[s].firstFatIndex = 0
        /\ Len(ChainOf(c, s)) = 2


\* the fields of a stream that a pollard leaves alone
Kept(s) == [s EXCEPT !.keepOffset = 0]

\* what C30 says of a pollard commit on a stream the log holds
PollardFrame ==
    /\ c'.fat = c.fat
    /\ DOMAIN c'.streams = DOMAIN c.streams
    /\ \A s \in DOMAIN c.streams :
           IF s = ret'.a.streamName THEN Kept(c'.streams[s]) = Kept(c.streams[s])
           ELSE c'.streams[s] = c.streams[s]

\* what C30 says of an append commit
AppendFrame ==
    /\ Len(c'.fat) = Len(c.fat) + 1
    /\ \A i \in 1..Len(c.fat) :
           c'.fat[i].pos = c.fat[i].pos /\ c'.fat[i].length = c.fat[i].length
    /\ DOMAIN c'.streams = DOMAIN c.streams \cup {ret'.a.streamName}
    /\ \A s \in DOMAIN c.streams :
           s # ret'.a.streamName => c'.streams[s] = c.streams[s]

\* a commit that returns no error
CommitStep == ret'.op = "commit" /\ ret'.err = "nil" /\ ncommit' = ncommit + 1

\* C30: a pollard commit on a stream of the log leaves the FAT and every
\* stream as they are, but for keepOffset of its stream; an append commit
\* adds one FAT entry, leaves pos and length of the entries before it as they
\* are, and leaves every stream but its own as it is.
C30_CommitFrames ==
    [][CommitStep
          => /\ (ret'.a.kind = "pollard" /\ HasStream(c, ret'.a.streamName)) => PollardFrame
             /\ ret'.a.kind = "append" => AppendFrame]_vars

\* after a pollard commit and an append commit on a log with two streams
C30_Witness ==
    /\ ret.op = "commit" /\ ret.err = "nil" /\ ret.a.kind = "append"
    /\ Cardinality(DOMAIN c.streams) = 2
    /\ Len(c.fat) >= 2
    /\ \E s \in DOMAIN c.streams : c.streams[s].keepOffset > c.streams[s].offset


\* a commit call, whatever it returns
AnyCommit == ret'.op = "commit" /\ ncommit' = ncommit + 1

\* what C31 says of stream s over one commit, but for keepOffset
StreamStays(s) ==
    /\ HasStream(c', s)
    /\ c'.streams[s].offset = c.streams[s].offset
    /\ c'.streams[s].offset + c'.streams[s].length >= c.streams[s].offset + c.streams[s].length

\* C31: over every commit on a log, each stream the log holds stays in the
\* log, keeps its first offset, and neither its keepOffset nor its end offset
\* decreases.
C31_OffsetsMonotone ==
    [][AnyCommit
          => \A s \in DOMAIN c.streams :
                 StreamStays(s) /\ c'.streams[s].keepOffset >= c.streams[s].keepOffset]_vars

\* The same, with keepOffset looked at only over the commits that are not a
\* pollard to a position below the keepOffset of the stream.
C31_OffsetsMonotoneForward ==
    [][AnyCommit
          => \A s \in DOMAIN c.streams :
                 /\ StreamStays(s)
                 /\ ~(ret'.a.kind = "pollard" /\ ret'.a.streamName = s
                        /\ ret'.a.pollardPos < c.streams[s].keepOffset)
                      => c'.streams[s].keepOffset >= c.streams[s].keepOffset]_vars


\* the state after the first k records of the file
CoreAt(k) == IF k = 0 THEN Core(newCommitLog) ELSE snaps[k].core
LenAt(k) == IF k = 0 THEN 0 ELSE snaps[k].len

\* Record k of the file is a pollard record whose pollardPos lies outside
\* [keepOffset, endOffset] of its stream as the records before it left it; a
\* stream that the record introduces has both at the offset field.
OutOfRange(k) ==
    /\ CoreAt(k).fat = CoreAt(k - 1).fat
    /\ \E s \in DOMAIN CoreAt(k).streams :
           LET q == CoreAt(k).streams[s]
               p == IF s \in DOMAIN CoreAt(k - 1).streams THEN CoreAt(k - 1).streams[s]
                    ELSE [q EXCEPT !.keepOffset = q.offset]
           IN  q.keepOffset < p.keepOffset \/ q.keepOffset > p.offset + p.length

\* recover has just run on a file of whole records, one of them a pollard
\* record out of range
RecoveredOutOfRange ==
    /\ ret.op = "recover" /\ clean /\ Len(ret.pre.file) = LastKept.len
    /\ \E k \in 1..Len(snaps) : OutOfRange(k)

FirstOutOfRange == CHOOSE k \in 1..Len(snaps) : OutOfRange(k) /\ \A j \in 1..(k - 1) : ~OutOfRange(j)

\* C32: after recover of a file with a pollard record whose pollardPos is
\* out of range, the state is that of the records before the first such
\* record, and the file ends where that record started.
C32_OutOfRangeStops ==
    RecoveredOutOfRange
        => /\ Core(c) = CoreAt(FirstOutOfRange - 1)
           /\ file = Slice(ret.pre.file, 0, LenAt(FirstOutOfRange - 1))

\* what recover does with such a file: it replays every record as the writer
\* applied it, and leaves the file as it is
C32_OutOfRangeReplayed ==
    RecoveredOutOfRange
        => ret.err = "nil" /\ Core(c) = LastKept.core /\ file = ret.pre.file


\* what C33 says of read(e, o, buf) with len(buf) = n on the sealed file
ReadAnswers(e, o, n) ==
    LET r == read(e, file, o, n)
    IN  IF o < e.span.From \/ o + n > e.span.To
        THEN r.panic = "none" /\ r.err = "invalid"
        ELSE r.panic = "none" /\ r.err = "nil" /\ Len(r.data) = n

\* C33: on the entry that search returns for a stream of a sealed log, read
\* returns InvalidArgument exactly for the requests that start below
\* span.From or end above span.To; for every other request it returns nil
\* with the buffer filled and indexes no piece past the entry's list.
C33_ReadInSpan ==
    JustSealed
        => \A s \in Names, o \in ReadOffsets, n \in ReadOffsets :
               (Found(s).panic = "none" /\ Found(s).err = "nil")
                   => ReadAnswers(Found(s), o, n)

\* the same for the requests that end below span.To, on a log none of whose
\* streams was pollarded to a position below its first offset
C33_ReadBelowEnd ==
    Sealed
        => \A s \in Names, o \in ReadOffsets, n \in ReadOffsets :
               (Found(s).panic = "none" /\ Found(s).err = "nil"
                   /\ ~(o >= Found(s).span.From /\ o + n = Found(s).span.To))
                   => ReadAnswers(Found(s), o, n)


\* finalize has just run on a log that was open and unsealed
FinalizedOpenLog ==
    /\ ret.op = "finalize"
    /\ ~ret.pre.c.w.nil /\ ~ret.pre.c.w.closed /\ ~ret.pre.c.finalized

\* C34: finalize on an open, unsealed log returns no error and indexes no
\* FAT entry out of range, and the file then ends with a dictionary that a
\* sealed reader opens.
C34_FinalizeCompletes ==
    FinalizedOpenLog => ret.err = "nil" /\ open(file).err = "nil"

\* the same for the logs that hold an extent
C34_FinalizeCompletesWithExtent ==
    (FinalizedOpenLog /\ Len(ret.pre.c.fat) > 0)
        => ret.err = "nil" /\ open(file).err = "nil"

\* the same for the logs without streams
C34_FinalizeCompletesEmpty ==
    (FinalizedOpenLog /\ DOMAIN ret.pre.c.streams = {})
        => ret.err = "nil" /\ open(file).err = "nil"


\* ------------------------------------------------------ any offset field
\* the offset fields a caller of commit can pass, whether or not the stream
\* is in the log
AnyOffsets == 0..(MaxBase + MaxData + MaxData)

AppendAnyOffset(k) ==
    {[kind |-> "append", flags |-> flagAppend, offset |-> o, streamName |-> nm,
      data |-> Data(k, L), pollardPos |-> 0] :
         o \in AnyOffsets, nm \in Names, L \in 0..MaxData}

\* c.commit(a) of an append action with any offset field
CommitOffsets ==
    \E a \in AppendAnyOffset(ncommit + 1) : DoCommit(a, "none", MaxOpenCommits)

NextOffsets == Create \/ CommitOffsets \/ NewLog \/ Recover
SpecOffsets == Init /\ [][NextOffsets]_vars

\* a commit of an append action has just returned
AppendCommit == ret'.op = "commit" /\ ncommit' = ncommit + 1 /\ ret'.a.kind = "append"

\* the stream of the action was in the log: it keeps its offsets and grows by
\* the payload
ExtendsStream(a) ==
    /\ c'.streams[a.streamName].offset = c.streams[a.streamName].offset
    /\ c'.streams[a.streamName].keepOffset = c.streams[a.streamName].keepOffset
    /\ c'.streams[a.streamName].length = c.streams[a.streamName].length + Len(a.data)

\* the stream of the action was not in the log: it starts at the offset field
StartsStream(a) ==
    /\ c'.streams[a.streamName].offset = a.offset
    /\ c'.streams[a.streamName].keepOffset = a.offset
    /\ c'.streams[a.streamName].length = Len(a.data)

\* C35: the offset field of an append action counts at the first mention of
\* its stream only, where it becomes baseOffset and keepOffset; an append to
\* a stream already in the log is accepted whatever its offset field is and
\* extends the stream at its end offset by exactly len(data).
C35_OffsetAtFirstMention ==
    [][AppendCommit
          => /\ ret'.err = "nil"
             /\ HasStream(c', ret'.a.streamName)
             /\ IF HasStream(c, ret'.a.streamName)
                THEN ExtendsStream(ret'.a) ELSE StartsStream(ret'.a)]_vars

\* an append to a stream already in the log whose offset field is neither the
\* stream's first offset nor the end offset it had
C35_Witness ==
    /\ ret.op = "commit" /\ ret.err = "nil" /\ ret.a.flags = flagAppend
    /\ HasStream(c, ret.a.streamName)
    /\ ret.a.offset # c.streams[ret.a.streamName].offset
    /\ ret.a.offset # c.streams[ret.a.streamName].offset
                        + c.streams[ret.a.streamName].length - Len(ret.a.data)
    /\ c.streams[ret.a.streamName].length > Len(ret.a.data)


\* no two streams of the log share an ordinal
OrdinalsDistinct ==
    \A x \in DOMAIN c.streams, y \in DOMAIN c.streams :
        x # y => c.streams[x].number # c.streams[y].number

\* The entry that an append commit created is the last of the pool (index
\* len(c.fat) - 1): the stream's lastFatIndex names it, and so does
\* firstFatIndex of a stream that held no bytes, or else the next link of the
\* entry that was the stream's last.
NamesNewEntry(nm) ==
    /\ Len(c'.fat) = Len(c.fat) + 1
    /\ c'.streams[nm].lastFatIndex = Len(c.fat)
    /\ IF HasStream(c, nm) /\ c.streams[nm].length > 0
       THEN /\ c'.streams[nm].firstFatIndex = c.streams[nm].firstFatIndex
            /\ c'.fat[c.streams[nm].lastFatIndex + 1].next = Len(c.fat)
       ELSE c'.streams[nm].firstFatIndex = Len(c.fat)


\* ------------------------------------------------------- 16-bit conversions
\* Every variable but ret as Init leaves it: the specifications of the pure
\* functions keep the call and its result in ret.
Idle ==
    /\ c = newCommitLog
    /\ file = <<>>
    /\ g = NoRecord
    /\ closeSnap = NoSnap
    /\ snaps = <<>>
    /\ clean = TRUE
    /\ ncommit = 0
    /\ nlogs = 1
    /\ fe = NoFrontend

others == <<c, file, g, closeSnap, snaps, clean, ncommit, nlogs, fe>>

\* pool lengths and stream counts on both sides of 2^16
NearLimit == 60
PoolLengths == (PoolLimit - NearLimit)..(PoolLimit + NearLimit)

\* the conversion is about to run on a pool ("fat") or a stream map
\* ("streams") of ret.len elements
InitIndex ==
    /\ Idle
    /\ ret \in [op : {"fat", "streams"}, len : PoolLengths, done : {FALSE}, index : {0}]

\* l := uint16(len(c.fat)) of appendAction.write
ConvertFat ==
    /\ ret.op = "fat" /\ ~ret.done
    /\ ret' = [ret EXCEPT !.done = TRUE, !.index = FatIndex(ret.len)]
    /\ UNCHANGED others

\* index := uint16(len(c.streams)) of action.write
ConvertStreams ==
    /\ ret.op = "streams" /\ ~ret.done
    /\ ret' = [ret EXCEPT !.done = TRUE, !.index = Ordinal(ret.len)]
    /\ UNCHANGED others

NextIndex == ConvertFat \/ ConvertStreams
SpecIndex == InitIndex /\ [][NextIndex]_vars

\* C36: FAT indices and ordinals have 16 bits, and for every number of append
\* commits and of streams in one log the index stored for a new pool entry is
\* the position of that entry in the pool, and the ordinal stored for a new
\* stream is one that no earlier stream has (the count of the streams before
\* it), also when the pool length or the stream count exceeds what 16 bits
\* hold.
C36_IndicesIdentify == ret.done => ret.index = ret.len

\* the same for a pool and a stream map of fewer than 2^16 elements
C36_IndicesIdentifyBelowLimit == (ret.done /\ ret.len < PoolLimit) => ret.index = ret.len

\* and on the logs of fewer than 2^16 entries: no two streams share an
\* ordinal, and every append commit leaves the indices of its stream naming
\* the entry it created
C36_IndicesIdentifyShortLog ==
    /\ []OrdinalsDistinct
    /\ [][(AppendCommit /\ ret'.err = "nil" /\ Len(c.fat) < PoolLimit)
              => NamesNewEntry(ret'.a.streamName)]_vars


\* ------------------------------------------------------------------ spans
MaxSpan == 3   \* largest From and To of a span
Spans == [From : 0..MaxSpan, To : 0..MaxSpan]

\* Span.HasOverlap
HasOverlap(s, s2) == s2.To > s.From /\ s.To > s2.From

\* s.HasOverlap(s2) or s.Intersect(s2) is about to run
InitSpan ==
    /\ Idle
    /\ ret \in [op : {"HasOverlap", "Intersect"}, s : Spans, s2 : Spans, done : {FALSE},
                overlap : {FALSE}, span : {[From |-> 0, To |-> 0]}]

CallHasOverlap ==
    /\ ret.op = "HasOverlap" /\ ~ret.done
    /\ ret' = [ret EXCEPT !.done = TRUE, !.overlap = HasOverlap(ret.s, ret.s2)]
    /\ UNCHANGED others

CallIntersect ==
    /\ ret.op = "Intersect" /\ ~ret.done
    /\ ret' = [ret EXCEPT !.done = TRUE, !.span = Intersect(ret.s, ret.s2)]
    /\ UNCHANGED others

NextSpan == CallHasOverlap \/ CallIntersect
SpecSpan == InitSpan /\ [][NextSpan]_vars

\* every byte of s is a byte of t
Within(s, t) == t.From <= s.From /\ s.To <= t.To

\* the result of the call is the result of the call with the arguments swapped
Symmetric ==
    /\ ret.op = "HasOverlap" => ret.overlap = HasOverlap(ret.s2, ret.s)
    /\ ret.op = "Intersect" => ret.span = Intersect(ret.s2, ret.s)

\* HasOverlap is true exactly when Intersect is not empty
OverlapIsIntersection ==
    /\ ret.op = "HasOverlap" => (ret.overlap <=> ~IsEmpty(Intersect(ret.s, ret.s2)))
    /\ ret.op = "Intersect" => (HasOverlap(ret.s, ret.s2) <=> ~IsEmpty(ret.span))

\* an Intersect that is not empty lies in both arguments
Contained ==
    (ret.op = "Intersect" /\ ~IsEmpty(ret.span))
        => Within(ret.span, ret.s) /\ Within(ret.span, ret.s2)

\* C37: for all spans a and b, the empty ones included, HasOverlap and
\* Intersect are symmetric in their arguments, HasOverlap(a, b) is true
\* exactly when Intersect(a, b) is not empty, and an Intersect(a, b) that is
\* not empty is contained in a and in b.
C37_SpanAlgebra == ret.done => Symmetric /\ OverlapIsIntersection /\ Contained

\* the same for two spans that are not empty
C37_SpanAlgebraNonEmpty ==
    (ret.done /\ ~IsEmpty(ret.s) /\ ~IsEmpty(ret.s2))
        => Symmetric /\ OverlapIsIntersection /\ Contained

\* symmetry and containment for all spans
C37_SymmetricContained == ret.done => Symmetric /\ Contained


\* ---------------------------------------------------------- protocol frames
\* FrameCode: 1 + iota
FrameCreateBundle == 1
FrameCreateBundleReply == 2
FrameOpenStream == 3
FrameOpenStreamReply == 4
FrameDest == 5
FrameDestReply == 6
FrameWrite == 7
FrameCommit == 8
FrameRead == 9
FrameServerPush == 10
FrameClose == 11
FrameProgress == 12

\* the types that implement Frame
FrameTypes ==
    {"CreateBundleRequest", "CreateBundleReply", "OpenStreamRequest", "OpenStreamReply",
     "DestRequest", "DestReply", "WriteRequest", "CommitNotice", "ReadRequest",
     "PushNotice", "CloseNotice", "ProgressNotice"}

\* T.Code()
Code(T) ==
    CASE T = "CreateBundleRequest" -> FrameCreateBundle
      [] T = "CreateBundleReply" -> FrameCreateBundle
      [] T = "OpenStreamRequest" -> FrameOpenStream
      [] T = "OpenStreamReply" -> FrameOpenStreamReply
      [] T = "DestRequest" -> FrameDest
      [] T = "DestReply" -> FrameDestReply
      [] T = "WriteRequest" -> FrameWrite
      [] T = "CommitNotice" -> FrameCommit
      [] T = "ReadRequest" -> FrameRead
      [] T = "PushNotice" -> FrameServerPush
      [] T = "CloseNotice" -> FrameClose
      [] T = "ProgressNotice" -> FrameProgress

\* The head of DeserializeFrame: the flow number and the type of the frame it
\* constructs for the code byte; err is the error of this head.
\* frame.Deserialize then fills the fields of that frame from buffer[5:],
\* sets the error of the body and leaves the type of the frame as it is.
DeserializeFrame(buffer) ==
    IF Len(buffer) < 4 + 1 THEN [flow |-> 0, frame |-> "nil", err |-> "deserialize"]
    ELSE LET code == buffer[5]
             made(T) == [flow |-> GetLE(buffer, 0, 4), frame |-> T, err |-> "nil"]
         IN  CASE code = FrameCreateBundle -> made("CreateBundleRequest")
               [] code = FrameCreateBundleReply -> made("CreateBundleReply")
               [] code = FrameOpenStream -> made("OpenStreamRequest")
               [] code = FrameOpenStreamReply -> made("OpenStreamReply")
               [] code = FrameDest -> made("DestRequest")
               [] code = FrameDestReply -> made("DestReply")
               [] code = FrameWrite -> made("WriteRequest")
               [] code = FrameCommit -> made("CommitNotice")
               [] code = FrameRead -> made("ReadRequest")
               [] code = FrameServerPush -> made("PushNotice")
               [] code = FrameClose -> made("CloseNotice")
               [] code = FrameProgress -> made("ProgressNotice")
               [] OTHER -> [flow |-> 0, frame |-> "nil", err |-> "deserialize"]

MaxFlow == 3   \* largest flow number of a frame
NoFrame == [flow |-> 0, frame |-> "nil", err |-> "nil"]

\* a frame of type T is about to be sent on flow number flow
InitFrame ==
    /\ Idle
    /\ ret \in [op : {"frame"}, T : FrameTypes, flow : 0..MaxFlow, stage : {"made"},
                buffer : {<<>>}, got : {NoFrame}]

\* the head of SerializeFrame: the flow number, then byte(f.Code())
SerializeHead ==
    /\ ret.op = "frame" /\ ret.stage = "made"
    /\ ret' = [ret EXCEPT !.stage = "sent",
                          !.buffer = PutLE(ret.flow, 4) \o <<Code(ret.T)>>]
    /\ UNCHANGED others

\* DeserializeFrame on the buffer that was sent
ReceiveFrame ==
    /\ ret.op = "frame" /\ ret.stage = "sent"
    /\ ret' = [ret EXCEPT !.stage = "received", !.got = DeserializeFrame(ret.buffer)]
    /\ UNCHANGED others

NextFrame == SerializeHead \/ ReceiveFrame
SpecFrame == InitFrame /\ [][NextFrame]_vars

\* no other frame type has the code of T
OwnCode(T) == \A T2 \in FrameTypes \ {T} : Code(T2) # Code(T)

\* C38: every frame type has a frame code of its own: for each of the twelve
\* frame types T, T.Code() differs from the code of every other type, and
\* DeserializeFrame on a buffer that carries T.Code() constructs a frame of
\* type T.
C38_OwnFrameCode ==
    (ret.op = "frame" /\ ret.stage = "received")
        => OwnCode(ret.T) /\ ret.got.err = "nil" /\ ret.got.frame = ret.T

\* the same for the types other than CreateBundleRequest and CreateBundleReply
C38_OwnFrameCodeOthers ==
    (ret.op = "frame" /\ ret.stage = "received"
        /\ ret.T \notin {"CreateBundleRequest", "CreateBundleReply"})
        => OwnCode(ret.T) /\ ret.got.err = "nil" /\ ret.got.frame = ret.T


\* -------------------------------------------------------------- identifiers
\* the strings of the fields of a UserIdent: byte strings without a zero byte
IdentStrings == {<<>>} \cup Names
UserIdents ==
    [Namespace : IdentStrings, Host : IdentStrings, Castle : IdentStrings,
     Lord : IdentStrings, Minion : IdentStrings]
NoIdent == [Namespace |-> <<>>, Host |-> <<>>, Castle |-> <<>>, Lord |-> <<>>, Minion |-> <<>>]

\* A byte slice is [b, cap, panic]: its bytes, its capacity, and whether a
\* slice expression on it went past the capacity.
\* serializeString
serializeString(str, buf) ==
    IF buf.panic \/ Len(buf.b) + Len(str) + 1 > buf.cap THEN [buf EXCEPT !.panic = TRUE]
    ELSE [buf EXCEPT !.b = buf.b \o str \o <<0>>]

\* the index of the first zero byte of buf (0-based), or len(buf) without one
RECURSIVE FirstZero(_, _)
FirstZero(buf, i) ==
    IF i >= Len(buf) THEN Len(buf)
    ELSE IF buf[i + 1] = 0 THEN i ELSE FirstZero(buf, i + 1)

\* deserializeString: the result is [str, buf, err]
deserializeString(buf, err) ==
    IF err # "nil" THEN [str |-> <<>>, buf |-> <<>>, err |-> err]
    ELSE LET i == FirstZero(buf, 0)
         IN  IF i < Len(buf)
             THEN [str |-> Slice(buf, 0, i), buf |-> Slice(buf, 0, i + 1), err |-> "nil"]
             ELSE [str |-> <<>>, buf |-> <<>>, err |-> "deserialize"]

\* UserIdent.Serialize
UserSerialize(u, buffer) ==
    serializeString(u.Minion,
        serializeString(u.Lord,
            serializeString(u.Castle,
                serializeString(u.Host,
                    serializeString(u.Namespace, buffer)))))

\* UserIdent.Deserialize: the result is [u, buf, err]
UserDeserialize(buffer, err) ==
    IF err # "nil" THEN [u |-> NoIdent, buf |-> <<>>, err |-> err]
    ELSE LET Five(r1, r2, r3, r4, r5) ==
                 [u |-> [Namespace |-> r1.str, Host |-> r2.str, Castle |-> r3.str,
                         Lord |-> r4.str, Minion |-> r5.str],
                  buf |-> r5.buf, err |-> r5.err]
             Four(r1, r2, r3, r4) == Five(r1, r2, r3, r4, deserializeString(r4.buf, r4.err))
             Three(r1, r2, r3) == Four(r1, r2, r3, deserializeString(r3.buf, r3.err))
             Two(r1, r2) == Three(r1, r2, deserializeString(r2.buf, r2.err))
             One(r1) == Two(r1, deserializeString(r1.buf, r1.err))
         IN  One(deserializeString(buffer, err))

\* UserIdent.ByteCount
UserByteCount(u) ==
    Len(u.Namespace) + 1 + Len(u.Host) + 1 + Len(u.Castle) + 1 + Len(u.Lord) + 1
        + Len(u.Minion) + 1

\* a UserIdent u is about to be serialized
InitIdent ==
    /\ Idle
    /\ ret \in [op : {"ident"}, u : UserIdents, stage : {"made"},
                buffer : {[b |-> <<>>, cap |-> 0, panic |-> FALSE]},
                got : {[u |-> NoIdent, buf |-> <<>>, err |-> "nil"]}]

\* u.Serialize(make([]byte, 0, u.ByteCount()))
SerializeIdent ==
    /\ ret.op = "ident" /\ ret.stage = "made"
    /\ ret' = [ret EXCEPT !.stage = "written",
                          !.buffer = UserSerialize(ret.u, [b |-> <<>>,
                                                           cap |-> UserByteCount(ret.u),
                                                           panic |-> FALSE])]
    /\ UNCHANGED others

\* v.Deserialize(buffer, &err) on these bytes, with err == nil
DeserializeIdent ==
    /\ ret.op = "ident" /\ ret.stage = "written" /\ ~ret.buffer.panic
    /\ ret' = [ret EXCEPT !.stage = "read", !.got = UserDeserialize(ret.buffer.b, "nil")]
    /\ UNCHANGED others

\* f.User.Serialize(buffer[1:]) of DestRequest.Serialize under SerializeFrame:
\* the slice has the length and the capacity u.ByteCount()
SerializeInFrame ==
    /\ ret.op = "ident" /\ ret.stage = "made"
    /\ ret' = [ret EXCEPT !.stage = "framed",
                          !.buffer = UserSerialize(ret.u,
                                        [b |-> [i \in 1..UserByteCount(ret.u) |-> 0],
                                         cap |-> UserByteCount(ret.u),
                                         panic |-> FALSE])]
    /\ UNCHANGED others

NextIdent == SerializeIdent \/ SerializeInFrame \/ DeserializeIdent
SpecIdent == InitIdent /\ [][NextIdent]_vars

\* Serialize has written exactly ByteCount() bytes
WroteByteCount == ~ret.buffer.panic /\ Len(ret.buffer.b) = UserByteCount(ret.u)

\* C39: identifier serialization round-trips: deserializeString returns the
\* string up to the first zero byte and the buffer that remains after that
\* zero byte, so for every UserIdent u Deserialize on the bytes that Serialize
\* produced restores the five fields of u in their order and consumes the
\* bytes, and Serialize writes exactly ByteCount() bytes.
C39_IdentRoundTrip ==
    /\ (ret.op = "ident" /\ ret.stage \in {"written", "read"}) => WroteByteCount
    /\ (ret.op = "ident" /\ ret.stage = "read")
           => ret.got.err = "nil" /\ ret.got.u = ret.u /\ ret.got.buf = <<>>

\* what the code does: Serialize appends exactly ByteCount() bytes to an empty
\* buffer of that capacity, and Deserialize reads Namespace into every field
C39_NamespaceInEveryField ==
    /\ (ret.op = "ident" /\ ret.stage \in {"written", "read"}) => WroteByteCount
    /\ (ret.op = "ident" /\ ret.stage = "read")
           => /\ ret.got.err = "nil"
              /\ \A fld \in DOMAIN ret.got.u : ret.got.u[fld] = ret.u.Namespace

\* and Serialize on the slice that DestRequest.Serialize hands it under
\* SerializeFrame writes exactly ByteCount() bytes
C39_SerializeInFrame == (ret.op = "ident" /\ ret.stage = "framed") => WroteByteCount

=============================================================================
